---- MODULE Spec2Model ----
(***************************************************************************)
(* A model of the BusTub buffer pool manager                               *)
(* (src/src/buffer/buffer_pool_manager.cpp) together with the LRU-K        *)
(* replacer it drives (src/src/buffer/lru_k_replacer.cpp).                 *)
(*                                                                         *)
(* Every method is a pure operator from the pool's state (a record that    *)
(* keeps the source's field names) to the state it leaves and the value it *)
(* returns.  The sequential specification Spec applies whole calls;        *)
(* SpecRt adds callers that write page bytes; the concurrent               *)
(* specification SpecConc runs FetchPage step by step on two threads.      *)
(***************************************************************************)
EXTENDS Integers, Sequences, FiniteSets, TLC

VARIABLES
    bpm,          \* the BufferPoolManager: its fields, its replacer, the disk
    last,         \* the call that produced this state and what it returned
    rt,           \* observer of one page's write / unpin / evict / fetch trip
    phase,        \* "seq", "warm", "setup": calls run one at a time; "conc": threads run
    nsetup,       \* calls counted so far in the current phase
    latch_,       \* owner of BufferPoolManager::latch_ (a thread, or NoThread)
    frame_latch_, \* owner of each frame_latch_[f]
    thr,          \* per thread: the call in progress and its position
    lruk,         \* an LRUKReplacer on its own and its last call (SpecLruk)
    guards,       \* the page guards of a caller, and the pins they took (SpecGuard)
    htable,       \* a DiskExtendibleHashTable: directory and buckets (SpecHash)
    bucket,       \* an ExtendibleHTableBucketPage on its own (SpecBucket)
    trie          \* tries built by Put (SpecTrie)

bpmVars == <<bpm, last, rt, phase, nsetup, latch_, frame_latch_, thr>>

subVars == <<lruk, guards, htable, bucket, trie>>

vars == <<bpmVars, subVars>>

(***************************************************************************)
(* Bounds of the model.                                                    *)
(***************************************************************************)
PoolSize == 2        \* pool_size: frames in the pool
ReplacerK == 2       \* replacer_k
MaxPages == 3        \* AllocatePage is called at most this often
MaxTimestamp == 4    \* RecordAccess is called at most this often (Spec)
MaxTimestampRt == 7  \* the same for SpecRt, which starts after four accesses
MaxPin == 2          \* a resident page is fetched up to this pin count
MaxFree == 2         \* DeletePage is called while the free list is shorter
MaxData == 1         \* page contents are 0 (zeroed memory) .. MaxData
MaxSetup == 6        \* sequential calls before the threads start (SpecConc)
MaxCalls == 6        \* calls after the warm-up (SpecRt); nsetup counts up to it
LrukFrames == 3      \* num_frames of the replacer on its own (SpecLruk)
MaxAccess == 5       \* RecordAccess is called at most this often (SpecLruk)
NumGuards == 2       \* guard variables of the caller (SpecGuard)
MaxGuardPins == 4    \* pins taken for guards (SpecGuard)
MaxKey == 3          \* keys are 0 (the all-zero key) .. MaxKey
BucketMaxSize == 3   \* max_size of the bucket page on its own (SpecBucket)
HTableBucketMaxSize == 2  \* bucket_max_size of the hash table (SpecHash)
HeaderMaxDepth == 2   \* header_max_depth
DirectoryMaxDepth == 2  \* directory_max_depth
MaxKeyLen == 2       \* trie keys have 1 .. MaxKeyLen characters
MaxValue == 2        \* trie values are 1 .. MaxValue
MaxHValue == 1       \* hash-table values are 1 .. MaxHValue
MaxTablePages == 7   \* a split is made while it leaves at most this many pages (SpecSplit)

(***************************************************************************)
(* Sentinels of the source.                                                *)
(***************************************************************************)
Unused == "unused"       \* value of a variable the specification at hand does not use
INVALID_PAGE_ID == -1    \* Page::page_id_ of a frame that holds no page
NullPage == -1           \* the nullptr NewPage / FetchPage return
ListEnd == -1            \* listRecentKth_.end()
NoThread == -1           \* a mutex nobody holds
NoPage == 0              \* the page id the hash table reads as "no page yet"
UInt8 == 256             \* local_depths_ holds uint8_t
UInt32Max == -1          \* 0xFFFFFFFF, written as the int32_t of the same bits

Frames == 0 .. (PoolSize - 1)
PageIds == 0 .. MaxPages
Data == 0 .. MaxData
Threads == {0, 1}

Min(S) == CHOOSE x \in S : \A y \in S : x <= y

(***************************************************************************)
(* std::list<frame_id_t> as a sequence; an iterator is the frame it points *)
(* at (list iterators stay on their element across splice), or ListEnd.    *)
(* mapRecentKth_[f] is therefore f itself for every tracked frame, and is  *)
(* not stored.                                                             *)
(***************************************************************************)
ListIndex(list, x) == Min({i \in 1 .. Len(list) : list[i] = x})

ListNext(list, it) ==
    LET i == ListIndex(list, it)
    IN  IF i = Len(list) THEN ListEnd ELSE list[i + 1]

ListErase(list, x) == SelectSeq(list, LAMBDA e : e # x)

ListInsertBefore(list, pos, x) ==
    IF pos = ListEnd
    THEN Append(list, x)
    ELSE LET i == ListIndex(list, pos)
         IN  SubSeq(list, 1, i - 1) \o <<x>> \o SubSeq(list, i, Len(list))

\* list.splice(pos, list, it): move the element at it in front of pos.
ListSplice(list, pos, x) ==
    IF pos = x THEN list ELSE ListInsertBefore(ListErase(list, x), pos, x)

MapErase(m, key) == [x \in (DOMAIN m) \ {key} |-> m[x]]

MapPut(m, key, val) == [x \in (DOMAIN m) \cup {key} |-> IF x = key THEN val ELSE m[x]]

(***************************************************************************)
(* LRUKReplacer                                                            *)
(***************************************************************************)
\* LRUKNode as node_store_.emplace(frame_id, k_) builds it.
NewNode == [history |-> <<>>, is_evictable |-> FALSE]

\* LRUKNode::saveHistory: push the timestamp, keep the k newest, report
\* whether the node now has k accesses.
saveHistory(node, ts, k) ==
    LET h == <<ts>> \o node.history
        kept == IF Len(h) > k THEN SubSeq(h, 1, k) ELSE h
    IN  [node |-> [node EXCEPT !.history = kept], full |-> Len(kept) >= k]

ReplacerInit(num_frames, k) ==
    [ replacer_size_     |-> num_frames,
      k_                 |-> k,
      node_store_        |-> <<>>,
      listRecentKth_     |-> <<>>,
      endInfIt_          |-> ListEnd,
      curr_size_         |-> 0,
      current_timestamp_ |-> 0,
      aborted            |-> FALSE ]

Tracked(r) == DOMAIN r.node_store_

IsEvictable(r, f) == f \in Tracked(r) /\ r.node_store_[f].is_evictable

\* The scan of Evict started at std::next(begin()) instead of begin().
FirstEvictable_SkipHead(r) ==
    LET hits == {i \in 2 .. Len(r.listRecentKth_) :
                    r.node_store_[r.listRecentKth_[i]].is_evictable}
    IN  IF hits = {} THEN ListEnd ELSE r.listRecentKth_[Min(hits)]

\* The scan of Evict: the first evictable entry of the list, or end().
FirstEvictable(r) ==
    LET hits == {i \in 1 .. Len(r.listRecentKth_) :
                    r.node_store_[r.listRecentKth_[i]].is_evictable}
    IN  IF hits = {} THEN ListEnd ELSE r.listRecentKth_[Min(hits)]

Evict(r) ==
    LET toRemoveIt == FirstEvictable(r)
    IN  IF toRemoveIt = ListEnd
        THEN [ok |-> FALSE, frame |-> NullPage, r |-> r]
        ELSE [ok |-> TRUE, frame |-> toRemoveIt,
              r |-> [r EXCEPT
                  !.endInfIt_ = IF r.endInfIt_ = toRemoveIt
                                THEN ListNext(r.listRecentKth_, toRemoveIt)
                                ELSE r.endInfIt_,
                  !.listRecentKth_ = ListErase(r.listRecentKth_, toRemoveIt),
                  !.node_store_ = MapErase(r.node_store_, toRemoveIt),
                  !.curr_size_ = r.curr_size_ - 1]]

RecordAccess(r, frame_id) ==
    IF ~(frame_id < r.replacer_size_)
    THEN [r EXCEPT !.aborted = TRUE]
    ELSE
    LET ts == r.current_timestamp_ + 1
        unseen == frame_id \notin Tracked(r)
        store0 == IF unseen THEN MapPut(r.node_store_, frame_id, NewNode)
                  ELSE r.node_store_
        list0 == IF unseen THEN Append(r.listRecentKth_, frame_id)
                 ELSE r.listRecentKth_
        saved == saveHistory(store0[frame_id], ts, r.k_)
        store1 == [store0 EXCEPT ![frame_id] = saved.node]
    IN  IF saved.full
        THEN [r EXCEPT
                 !.current_timestamp_ = ts,
                 !.node_store_ = store1,
                 !.endInfIt_ = IF r.endInfIt_ = frame_id
                               THEN ListNext(list0, frame_id)
                               ELSE r.endInfIt_,
                 !.listRecentKth_ = ListSplice(list0, ListEnd, frame_id)]
        ELSE [r EXCEPT
                 !.current_timestamp_ = ts,
                 !.node_store_ = store1,
                 !.listRecentKth_ = ListSplice(list0, r.endInfIt_, frame_id)]

BoolToInt(b) == IF b THEN 1 ELSE 0

\* SetEvictable without line 70.
SetEvictable_NoCount(r, frame_id, set_evictable) ==
    IF ~(frame_id < r.replacer_size_)
    THEN [r EXCEPT !.aborted = TRUE]
    ELSE IF frame_id \in Tracked(r)
    THEN [r EXCEPT !.node_store_[frame_id].is_evictable = set_evictable]
    ELSE r

SetEvictable(r, frame_id, set_evictable) ==
    IF ~(frame_id < r.replacer_size_)
    THEN [r EXCEPT !.aborted = TRUE]
    ELSE IF frame_id \in Tracked(r)
    THEN LET source == BoolToInt(r.node_store_[frame_id].is_evictable)
             target == BoolToInt(set_evictable)
         IN  [r EXCEPT
                 !.node_store_[frame_id].is_evictable = set_evictable,
                 !.curr_size_ = r.curr_size_ + (target - source)]
    ELSE r

Remove(r, frame_id) ==
    IF frame_id \notin Tracked(r)
    THEN r
    ELSE IF ~r.node_store_[frame_id].is_evictable
    THEN [r EXCEPT !.aborted = TRUE]
    ELSE [r EXCEPT
             !.endInfIt_ = IF r.endInfIt_ = frame_id
                           THEN ListNext(r.listRecentKth_, frame_id)
                           ELSE r.endInfIt_,
             !.listRecentKth_ = ListErase(r.listRecentKth_, frame_id),
             !.node_store_ = MapErase(r.node_store_, frame_id),
             !.curr_size_ = r.curr_size_ - 1]

Size(r) == r.curr_size_

(***************************************************************************)
(* BufferPoolManager                                                       *)
(***************************************************************************)
\* A Page as the Page class constructs it.
NewFrame == [page_id_ |-> INVALID_PAGE_ID, pin_count_ |-> 0,
             is_dirty_ |-> FALSE, data_ |-> 0]

\* Page::ResetMemory zeroes the data buffer and nothing else.
ResetMemory(page) == [page EXCEPT !.data_ = 0]

\* The constructor: every frame is on the free list, in order.
BpmInit(pool_size, replacer_k) ==
    [ pool_size_    |-> pool_size,
      pages_        |-> [f \in 0 .. (pool_size - 1) |-> NewFrame],
      replacer_     |-> ReplacerInit(pool_size, replacer_k),
      free_list_    |-> [i \in 1 .. pool_size |-> i - 1],
      page_table_   |-> <<>>,
      next_page_id_ |-> 0,
      disk          |-> [p \in PageIds |-> 0],
      ub            |-> FALSE ]

\* The process is still running: no BUSTUB_ASSERT fired, no wild write landed.
Alive(w) == ~w.ub /\ ~w.replacer_.aborted

Resident(w, page_id) == page_id \in DOMAIN w.page_table_

\* The disk scheduler, awaited: a write request and a read request.
DiskWrite(w, page_id, data) == [w EXCEPT !.disk[page_id] = data]

DiskRead(w, page_id) == w.disk[page_id]

\* Lines 40-47 and 72-77: the free list first, the replacer otherwise.
PickFrame(w) ==
    IF Len(w.free_list_) > 0
    THEN [ok |-> TRUE, frame |-> Head(w.free_list_), how |-> "free",
          w |-> [w EXCEPT !.free_list_ = Tail(w.free_list_)]]
    ELSE LET e == Evict(w.replacer_)
         IN  [ok |-> e.ok, frame |-> e.frame,
              how |-> IF e.ok THEN "evict" ELSE "none",
              w |-> [w EXCEPT !.replacer_ = e.r]]

AllocatePage(w) ==
    [page_id |-> w.next_page_id_,
     w |-> [w EXCEPT !.next_page_id_ = w.next_page_id_ + 1]]

\* FlushPage, the whole method: it holds latch_ from start to end.
FlushPage(w, page_id) ==
    IF ~Resident(w, page_id)
    THEN [ok |-> FALSE, w |-> w]
    ELSE LET frame == w.page_table_[page_id]
             written == DiskWrite(w, page_id, w.pages_[frame].data_)
         IN  [ok |-> TRUE,
              w |-> [written EXCEPT !.pages_[frame].is_dirty_ = FALSE]]

\* NewPage lines 38-50: the part under latch_.
NewPageLatched(w) ==
    LET pick == PickFrame(w)
    IN  IF ~pick.ok
        THEN [ok |-> FALSE, frame |-> NullPage, page_id |-> INVALID_PAGE_ID,
              how |-> pick.how, w |-> pick.w]
        ELSE LET alloc == AllocatePage(pick.w)
             IN  [ok |-> TRUE, frame |-> pick.frame, page_id |-> alloc.page_id,
                  how |-> pick.how,
                  w |-> [alloc.w EXCEPT !.page_table_ =
                            MapPut(alloc.w.page_table_, alloc.page_id, pick.frame)]]

\* Lines 53-54 and 82-83, under the frame latch.
TouchFrame(w, frame) ==
    [w EXCEPT !.replacer_ = SetEvictable(RecordAccess(w.replacer_, frame), frame, FALSE)]

\* DropOldPage without the erase of line 59 / 95.
DropOldPage_NoErase(w, frame) ==
    LET old == w.pages_[frame].page_id_
    IN  IF old # INVALID_PAGE_ID THEN FlushPage(w, old).w ELSE w

\* Lines 57-60 and 93-96: write the frame's old page back and forget it.
DropOldPage(w, frame) ==
    LET old == w.pages_[frame].page_id_
    IN  IF old # INVALID_PAGE_ID
        THEN LET flushed == FlushPage(w, old).w
             IN  [flushed EXCEPT !.page_table_ = MapErase(flushed.page_table_, old)]
        ELSE w

\* NewPage lines 61-64.
NewPageInstall(w, frame, new_page_id) ==
    [w EXCEPT !.pages_[frame] =
        [ResetMemory(w.pages_[frame]) EXCEPT
            !.pin_count_ = 1, !.is_dirty_ = TRUE, !.page_id_ = new_page_id]]

\* NewPage lines 52-65: the part after latch_ is released.
NewPageUnlatched(w, frame, new_page_id) ==
    NewPageInstall(DropOldPage(TouchFrame(w, frame), frame), frame, new_page_id)

NewPage(w) ==
    LET head == NewPageLatched(w)
    IN  IF ~head.ok
        THEN [page |-> NullPage, page_id |-> INVALID_PAGE_ID, how |-> head.how,
              w |-> head.w]
        ELSE [page |-> head.frame, page_id |-> head.page_id, how |-> head.how,
              w |-> NewPageUnlatched(head.w, head.frame, head.page_id)]

\* FetchPage lines 69-79 on a miss: the part under latch_.
FetchMissLatched(w, page_id) ==
    LET pick == PickFrame(w)
    IN  IF ~pick.ok
        THEN [ok |-> FALSE, frame |-> NullPage, how |-> pick.how, w |-> pick.w]
        ELSE [ok |-> TRUE, frame |-> pick.frame, how |-> pick.how,
              w |-> [pick.w EXCEPT !.page_table_ =
                        MapPut(pick.w.page_table_, page_id, pick.frame)]]

\* FetchPage lines 97-101.
FetchInstall(w, frame, page_id, buf) ==
    [w EXCEPT !.pages_[frame] =
        [ResetMemory(w.pages_[frame]) EXCEPT
            !.page_id_ = page_id, !.pin_count_ = 1, !.is_dirty_ = FALSE,
            !.data_ = buf]]

\* FetchPage lines 81-102: the disk read comes before the old page is dropped.
FetchMissUnlatched(w, frame, page_id) ==
    LET touched == TouchFrame(w, frame)
        buf == DiskRead(touched, page_id)
    IN  FetchInstall(DropOldPage(touched, frame), frame, page_id, buf)

\* FetchPage lines 105-108: the page is resident.
FetchHit(w, page_id) ==
    LET frame == w.page_table_[page_id]
    IN  [page |-> frame, how |-> "hit",
         w |-> [w EXCEPT !.pages_[frame].pin_count_ = w.pages_[frame].pin_count_ + 1]]

FetchPage(w, page_id) ==
    IF Resident(w, page_id)
    THEN FetchHit(w, page_id)
    ELSE LET head == FetchMissLatched(w, page_id)
         IN  IF ~head.ok
             THEN [page |-> NullPage, how |-> head.how, w |-> head.w]
             ELSE [page |-> head.frame, how |-> head.how,
                   w |-> FetchMissUnlatched(head.w, head.frame, page_id)]

\* UnpinPage without the residency test of line 114: page_table_[page_id]
\* on line 115 then inserts the page id with frame 0.
UnpinPage_NoFind(w, page_id, is_dirty) ==
    LET found == IF Resident(w, page_id)
                 THEN w
                 ELSE [w EXCEPT !.page_table_ = MapPut(w.page_table_, page_id, 0)]
        frame == found.page_table_[page_id]
        pins == found.pages_[frame].pin_count_ - 1
    IN  IF found.pages_[frame].pin_count_ <= 0
        THEN [ok |-> FALSE, w |-> found]
        ELSE [ok |-> TRUE,
              w |-> [found EXCEPT
                  !.pages_[frame].pin_count_ = pins,
                  !.replacer_ = IF pins = 0
                                THEN SetEvictable(found.replacer_, frame, TRUE)
                                ELSE found.replacer_,
                  !.pages_[frame].is_dirty_ = is_dirty]]

UnpinPage(w, page_id, is_dirty) ==
    IF ~Resident(w, page_id)
    THEN [ok |-> FALSE, w |-> w]
    ELSE LET frame == w.page_table_[page_id]
             pins == w.pages_[frame].pin_count_ - 1
         IN  IF w.pages_[frame].pin_count_ <= 0
             THEN [ok |-> FALSE, w |-> w]
             ELSE [ok |-> TRUE,
                   w |-> [w EXCEPT
                       !.pages_[frame].pin_count_ = pins,
                       !.replacer_ = IF pins = 0
                                     THEN SetEvictable(w.replacer_, frame, TRUE)
                                     ELSE w.replacer_,
                       !.pages_[frame].is_dirty_ = is_dirty]]

\* FlushAllPages: one disk write per page-table entry.
RECURSIVE FlushEach(_, _)
FlushEach(w, ids) ==
    IF ids = {}
    THEN w
    ELSE LET page_id == Min(ids)
         IN  FlushEach(FlushPage(w, page_id).w, ids \ {page_id})

FlushAllPages(w) == FlushEach(w, DOMAIN w.page_table_)

\* DeallocatePage is an empty stub.
DeallocatePage(w, page_id) == w

\* DeletePage.  Line 166 indexes pages_ with the page id: inside the array
\* it zeroes the data of frame number page_id; outside it the write is
\* out of bounds, and wild is what the build makes of it: "none" (the
\* bytes land where nothing modelled lives) or "crash".
DeletePage(w, page_id, wild) ==
    IF Resident(w, page_id)
    THEN LET frame == w.page_table_[page_id]
         IN  IF w.pages_[frame].pin_count_ > 0
             THEN [ok |-> FALSE, w |-> w]
             ELSE LET dealloc == DeallocatePage(w, page_id)
                      removed == [dealloc EXCEPT !.replacer_ = Remove(dealloc.replacer_, frame),
                                         !.free_list_ = Append(dealloc.free_list_, frame)]
                  IN  [ok |-> TRUE,
                       w |-> IF page_id < w.pool_size_
                             THEN [removed EXCEPT
                                      !.pages_[page_id] = ResetMemory(removed.pages_[page_id])]
                             ELSE [removed EXCEPT !.ub = (wild = "crash")]]
    ELSE [ok |-> TRUE, w |-> w]

\* A caller that holds a pin writes the page's bytes through its Page*.
WriteData(w, page_id, data) ==
    [w EXCEPT !.pages_[w.page_table_[page_id]].data_ = data]

(***************************************************************************)
(* Observers.  last describes the call that led to the current state; rt   *)
(* follows one page through "written while pinned, then unpinned, then     *)
(* evicted, then fetched again".  Neither is read by the program.          *)
(***************************************************************************)
NoCall == [op |-> "none", page_id |-> INVALID_PAGE_ID, is_dirty |-> FALSE,
           ok |-> FALSE, page |-> NullPage, how |-> "none", victim_pin |-> 0]

RtOff == [stage |-> "off", page |-> INVALID_PAGE_ID, val |-> 0, got |-> 0]

RtIdle == [stage |-> "none", page |-> INVALID_PAGE_ID, val |-> 0, got |-> 0]

\* The pin count of the frame a NewPage / FetchPage miss is about to take.
VictimPin(w) ==
    LET pick == PickFrame(w)
    IN  IF pick.ok THEN w.pages_[pick.frame].pin_count_ ELSE 0

\* rt after a NewPage or FetchPage that led from w to w2 and returned page.
RtAfterLoad(r, op, page_id, w, w2, page) ==
    IF r.stage \in {"off", "none"}
    THEN r
    ELSE IF r.stage = "fetched"
    THEN RtIdle
    ELSE IF Resident(w, r.page) /\ ~Resident(w2, r.page)
    THEN IF r.stage = "unpinned" THEN [r EXCEPT !.stage = "evicted"] ELSE RtIdle
    ELSE IF r.stage = "evicted" /\ op = "FetchPage" /\ page_id = r.page /\ page # NullPage
    THEN [r EXCEPT !.stage = "fetched", !.got = w2.pages_[page].data_]
    ELSE r

RtAfterUnpin(r, page_id, ok) ==
    IF r.stage = "fetched"
    THEN RtIdle
    ELSE IF r.stage = "written" /\ r.page = page_id /\ ok
    THEN [r EXCEPT !.stage = "unpinned"]
    ELSE r

RtAfterDelete(r, w, page_id) ==
    IF r.stage = "fetched" \/ (r.stage \notin {"off", "none"} /\ r.page = page_id /\ Resident(w, page_id))
    THEN RtIdle
    ELSE r

\* rt follows the page written last.
RtAfterWrite(r, page_id, data) ==
    IF r.stage = "off"
    THEN r
    ELSE [stage |-> "written", page |-> page_id, val |-> data, got |-> 0]

RtAfterOther(r) == IF r.stage = "fetched" THEN RtIdle ELSE r

(***************************************************************************)
(* The sequential specifications: one whole call per step.                 *)
(*                                                                         *)
(* Spec starts at the constructor's state.  SpecRt adds callers that write *)
(* page bytes, and the observer rt.  To reach the round trips within       *)
(* MaxTimestampRt accesses, a behaviour of SpecRt begins with the calls of *)
(* WarmScript (phase "warm"): they leave page 1 pinned in frame 0 and      *)
(* page 2, written and unpinned, in frame 1.  MaxCalls further calls       *)
(* follow.                                                                 *)
(***************************************************************************)
IdleThread == [pc |-> "idle", page_id |-> INVALID_PAGE_ID, frame |-> NullPage,
               buf |-> 0, pins |-> 0, ret |-> NullPage, pin0 |-> 0]

WarmScript ==
    << [op |-> "NewPage", page_id |-> 0], [op |-> "NewPage", page_id |-> 1],
       [op |-> "UnpinPage", page_id |-> 1], [op |-> "NewPage", page_id |-> 2],
       [op |-> "UnpinPage", page_id |-> 0], [op |-> "FetchPage", page_id |-> 1],
       [op |-> "WriteData", page_id |-> 2], [op |-> "UnpinPage", page_id |-> 2] >>

InitRest ==
    /\ bpm = BpmInit(PoolSize, ReplacerK)
    /\ last = NoCall
    /\ nsetup = 0
    /\ latch_ = NoThread
    /\ frame_latch_ = [f \in Frames |-> NoThread]
    /\ thr = [t \in Threads |-> IdleThread]
    /\ lruk = Unused
    /\ guards = Unused
    /\ htable = Unused
    /\ bucket = Unused
    /\ trie = Unused

Init == InitRest /\ phase = "seq" /\ rt = RtOff

InitRt == InitRest /\ phase = "warm" /\ rt = RtIdle

RtMode == rt.stage # "off"

TimestampCap == IF RtMode THEN MaxTimestampRt ELSE MaxTimestamp

\* The page ids callers pass: those handed out so far, and one that was not.
KnownIds(w) == {page_id \in PageIds : page_id <= w.next_page_id_}

\* What every call step shares: in phase "warm" the call is the script's
\* next one; in phase "seq" any call may come; in phase "setup" any call
\* may come until MaxSetup calls were made.
CallFrame(op, page_id) ==
    /\ Alive(bpm)
    /\ IF phase = "warm"
       THEN /\ WarmScript[nsetup + 1] = [op |-> op, page_id |-> page_id]
            /\ nsetup' = IF nsetup + 1 = Len(WarmScript) THEN 0 ELSE nsetup + 1
            /\ phase' = IF nsetup + 1 = Len(WarmScript) THEN "seq" ELSE "warm"
       ELSE IF phase = "seq"
       THEN /\ RtMode => nsetup < MaxCalls
            /\ nsetup' = IF RtMode THEN nsetup + 1 ELSE nsetup
            /\ phase' = phase
       ELSE /\ phase = "setup"
            /\ nsetup < MaxSetup
            /\ nsetup' = nsetup + 1
            /\ phase' = phase
    /\ UNCHANGED <<latch_, frame_latch_, thr, subVars>>

NewPageCall ==
    /\ CallFrame("NewPage", bpm.next_page_id_)
    /\ bpm.next_page_id_ < MaxPages
    /\ bpm.replacer_.current_timestamp_ < TimestampCap
    /\ LET res == NewPage(bpm)
       IN  /\ bpm' = res.w
           /\ last' = [NoCall EXCEPT !.op = "NewPage", !.page_id = res.page_id,
                          !.ok = (res.page # NullPage), !.page = res.page,
                          !.how = res.how, !.victim_pin = VictimPin(bpm)]
           /\ rt' = RtAfterLoad(rt, "NewPage", res.page_id, bpm, res.w, res.page)

\* Callers fetch page ids that AllocatePage has handed out.
FetchPageCall ==
    \E page_id \in PageIds :
        /\ CallFrame("FetchPage", page_id)
        /\ page_id < bpm.next_page_id_
        /\ IF Resident(bpm, page_id)
           THEN bpm.pages_[bpm.page_table_[page_id]].pin_count_ < MaxPin
           ELSE bpm.replacer_.current_timestamp_ < TimestampCap
        /\ LET res == FetchPage(bpm, page_id)
           IN  /\ bpm' = res.w
               /\ last' = [NoCall EXCEPT !.op = "FetchPage", !.page_id = page_id,
                              !.ok = (res.page # NullPage), !.page = res.page,
                              !.how = res.how,
                              !.victim_pin = IF Resident(bpm, page_id) THEN 0
                                             ELSE VictimPin(bpm)]
               /\ rt' = RtAfterLoad(rt, "FetchPage", page_id, bpm, res.w, res.page)

UnpinPageCall ==
    \E page_id \in KnownIds(bpm), is_dirty \in BOOLEAN :
        /\ CallFrame("UnpinPage", page_id)
        /\ phase = "warm" => ~is_dirty
        /\ LET res == UnpinPage(bpm, page_id, is_dirty)
           IN  /\ bpm' = res.w
               /\ last' = [NoCall EXCEPT !.op = "UnpinPage", !.page_id = page_id,
                              !.is_dirty = is_dirty, !.ok = res.ok]
               /\ rt' = RtAfterUnpin(rt, page_id, res.ok)

FlushPageCall ==
    \E page_id \in KnownIds(bpm) :
        /\ CallFrame("FlushPage", page_id)
        /\ LET res == FlushPage(bpm, page_id)
           IN  /\ bpm' = res.w
               /\ last' = [NoCall EXCEPT !.op = "FlushPage", !.page_id = page_id,
                              !.ok = res.ok]
               /\ rt' = RtAfterOther(rt)

FlushAllPagesCall ==
    /\ CallFrame("FlushAllPages", INVALID_PAGE_ID)
    /\ bpm' = FlushAllPages(bpm)
    /\ last' = [NoCall EXCEPT !.op = "FlushAllPages", !.ok = TRUE]
    /\ rt' = RtAfterOther(rt)

DeletePageCall ==
    \E page_id \in KnownIds(bpm), wild \in {"none", "crash"} :
        /\ CallFrame("DeletePage", page_id)
        /\ Len(bpm.free_list_) < MaxFree
        /\ (wild = "crash") =>
              (Resident(bpm, page_id) /\ page_id >= bpm.pool_size_
               /\ bpm.pages_[bpm.page_table_[page_id]].pin_count_ = 0)
        /\ LET res == DeletePage(bpm, page_id, wild)
           IN  /\ bpm' = res.w
               /\ last' = [NoCall EXCEPT !.op = "DeletePage", !.page_id = page_id,
                              !.ok = res.ok]
               /\ rt' = RtAfterDelete(rt, bpm, page_id)

\* Callers write non-zero bytes; zero is what ResetMemory leaves.
WriteDataCall ==
    \E page_id \in PageIds, data \in Data \ {0} :
        /\ CallFrame("WriteData", page_id)
        /\ Resident(bpm, page_id)
        /\ bpm.pages_[bpm.page_table_[page_id]].pin_count_ > 0
        /\ bpm' = WriteData(bpm, page_id, data)
        /\ last' = [NoCall EXCEPT !.op = "WriteData", !.page_id = page_id, !.ok = TRUE]
        /\ rt' = RtAfterWrite(rt, page_id, data)

Next ==
    \/ NewPageCall
    \/ FetchPageCall
    \/ UnpinPageCall
    \/ FlushPageCall
    \/ FlushAllPagesCall
    \/ DeletePageCall

Spec == Init /\ [][Next]_vars

NextRt == Next \/ WriteDataCall

SpecRt == InitRt /\ [][NextRt]_vars

(***************************************************************************)
(* The concurrent specification.  After at most MaxSetup whole calls       *)
(* (phase "setup") two threads each call FetchPage with the same page id   *)
(* (phase "conc").  A thread's pc is its position in FetchPage:            *)
(*                                                                         *)
(*   "start"      before line 69: waiting for latch_                       *)
(*   "find"       line 70, holding latch_                                  *)
(*   "hit_load"   line 106, reading pin_count_                             *)
(*   "hit_store"  line 106, writing pin_count_; lines 107-108              *)
(*   "frame_lock" line 81: waiting for the frame latch                     *)
(*   "touch"      lines 82-83                                              *)
(*   "read"       lines 86-90                                              *)
(*   "flush"      lines 93-94                                              *)
(*   "erase"      line 95, before page_table_.erase                        *)
(*   "erasing"    line 95, inside page_table_.erase                        *)
(*   "install"    lines 97-102                                             *)
(*   "done"       returned; ret is the frame returned, or NullPage         *)
(*                                                                         *)
(* page_table_.erase on line 95 runs without latch_.  An access to         *)
(* page_table_ by the other thread while this one is inside erase is a     *)
(* data race on the std::unordered_map: the racing find may see the table  *)
(* as it is, may miss an entry that is there, or the process may crash.    *)
(***************************************************************************)
InitConc == InitRest /\ phase = "setup" /\ rt = RtOff

\* Some other thread is inside the unlatched page_table_.erase.
Raced(t) == \E u \in Threads \ {t} : thr[u].pc = "erasing"

\* What a page-table access by thread t can come to.
RaceOutcomes(t) == IF Raced(t) THEN {"none", "miss", "crash"} ELSE {"none"}

Crashed(w) == [w EXCEPT !.ub = TRUE]

StartConc ==
    /\ phase = "setup"
    /\ Alive(bpm)
    /\ \E page_id \in PageIds :
          /\ page_id < bpm.next_page_id_
          /\ thr' = [t \in Threads |->
                        [IdleThread EXCEPT
                            !.pc = "start", !.page_id = page_id,
                            !.pin0 = IF Resident(bpm, page_id)
                                     THEN bpm.pages_[bpm.page_table_[page_id]].pin_count_
                                     ELSE 0]]
    /\ phase' = "conc"
    /\ nsetup' = 0
    /\ last' = NoCall
    /\ UNCHANGED <<bpm, rt, latch_, frame_latch_, subVars>>

\* What every thread step shares.
ThreadFrame(t, pc) ==
    /\ phase = "conc"
    /\ Alive(bpm)
    /\ thr[t].pc = pc
    /\ UNCHANGED <<last, rt, phase, nsetup, subVars>>

\* Line 69.
FetchLock(t) ==
    /\ ThreadFrame(t, "start")
    /\ latch_ = NoThread
    /\ latch_' = t
    /\ thr' = [thr EXCEPT ![t].pc = "find"]
    /\ UNCHANGED <<bpm, frame_latch_>>

\* Lines 70-79 on a miss; lines 70 and 105 on a hit.
FetchFind(t) ==
    /\ ThreadFrame(t, "find")
    /\ \E race \in RaceOutcomes(t) :
          IF race = "crash"
          THEN /\ bpm' = Crashed(bpm)
               /\ UNCHANGED <<thr, latch_>>
          ELSE IF Resident(bpm, thr[t].page_id) /\ race = "none"
          THEN /\ thr' = [thr EXCEPT ![t].pc = "hit_load",
                                     ![t].frame = bpm.page_table_[thr[t].page_id]]
               /\ UNCHANGED <<bpm, latch_>>
          ELSE LET head == FetchMissLatched(bpm, thr[t].page_id)
               IN  /\ bpm' = head.w
                   /\ latch_' = NoThread
                   /\ thr' = IF head.ok
                             THEN [thr EXCEPT ![t].pc = "frame_lock",
                                              ![t].frame = head.frame]
                             ELSE [thr EXCEPT ![t].pc = "done", ![t].ret = NullPage]
    /\ UNCHANGED frame_latch_

\* Line 106, the read of pin_count_.
FetchHitLoad(t) ==
    /\ ThreadFrame(t, "hit_load")
    /\ thr' = [thr EXCEPT ![t].pc = "hit_store",
                          ![t].pins = bpm.pages_[thr[t].frame].pin_count_]
    /\ UNCHANGED <<bpm, latch_, frame_latch_>>

\* Line 106, the write of pin_count_, and lines 107-108.
FetchHitStore(t) ==
    /\ ThreadFrame(t, "hit_store")
    /\ bpm' = [bpm EXCEPT !.pages_[thr[t].frame].pin_count_ = thr[t].pins + 1]
    /\ latch_' = NoThread
    /\ thr' = [thr EXCEPT ![t].pc = "done", ![t].ret = thr[t].frame]
    /\ UNCHANGED frame_latch_

\* Line 81.
FetchFrameLock(t) ==
    /\ ThreadFrame(t, "frame_lock")
    /\ frame_latch_[thr[t].frame] = NoThread
    /\ frame_latch_' = [frame_latch_ EXCEPT ![thr[t].frame] = t]
    /\ thr' = [thr EXCEPT ![t].pc = "touch"]
    /\ UNCHANGED <<bpm, latch_>>

\* Lines 82-83.
FetchTouch(t) ==
    /\ ThreadFrame(t, "touch")
    /\ bpm' = TouchFrame(bpm, thr[t].frame)
    /\ thr' = [thr EXCEPT ![t].pc = "read"]
    /\ UNCHANGED <<latch_, frame_latch_>>

\* Lines 86-90.
FetchDiskRead(t) ==
    /\ ThreadFrame(t, "read")
    /\ thr' = [thr EXCEPT ![t].pc = "flush", ![t].buf = DiskRead(bpm, thr[t].page_id)]
    /\ UNCHANGED <<bpm, latch_, frame_latch_>>

\* Lines 93-94 and 127: FlushPage takes latch_ while this thread holds the
\* frame latch.
FetchFlushOld(t) ==
    /\ ThreadFrame(t, "flush")
    /\ IF bpm.pages_[thr[t].frame].page_id_ = INVALID_PAGE_ID
       THEN /\ thr' = [thr EXCEPT ![t].pc = "install"]
            /\ UNCHANGED latch_
       ELSE /\ latch_ = NoThread
            /\ latch_' = t
            /\ thr' = [thr EXCEPT ![t].pc = "flush_find"]
    /\ UNCHANGED <<bpm, frame_latch_>>

\* Lines 128-134: FlushPage looks the page up and schedules the write; when
\* the page is not found it returns, which releases latch_.
FetchFlushFind(t) ==
    /\ ThreadFrame(t, "flush_find")
    /\ \E race \in RaceOutcomes(t) :
          IF race = "crash"
          THEN /\ bpm' = Crashed(bpm)
               /\ UNCHANGED <<thr, latch_>>
          ELSE IF race = "miss" \/ ~Resident(bpm, bpm.pages_[thr[t].frame].page_id_)
          THEN /\ thr' = [thr EXCEPT ![t].pc = "erase"]
               /\ latch_' = NoThread
               /\ UNCHANGED bpm
          ELSE /\ thr' = [thr EXCEPT ![t].pc = "flush_wait"]
               /\ UNCHANGED <<bpm, latch_>>
    /\ UNCHANGED frame_latch_

\* Lines 135-139: the write completes while FlushPage holds latch_, and the
\* return releases it.
FetchFlushDone(t) ==
    /\ ThreadFrame(t, "flush_wait")
    /\ bpm' = FlushPage(bpm, bpm.pages_[thr[t].frame].page_id_).w
    /\ latch_' = NoThread
    /\ thr' = [thr EXCEPT ![t].pc = "erase"]
    /\ UNCHANGED frame_latch_

\* Line 95: page_table_.erase begins, without latch_.
FetchEraseBegin(t) ==
    /\ ThreadFrame(t, "erase")
    /\ thr' = [thr EXCEPT ![t].pc = "erasing"]
    /\ UNCHANGED <<bpm, latch_, frame_latch_>>

\* Line 95: page_table_.erase ends.  Two erases at once may crash.
FetchEraseEnd(t) ==
    /\ ThreadFrame(t, "erasing")
    /\ \E race \in RaceOutcomes(t) \ {"miss"} :
          /\ bpm' = IF race = "crash"
                    THEN Crashed(bpm)
                    ELSE [bpm EXCEPT !.page_table_ =
                             MapErase(bpm.page_table_, bpm.pages_[thr[t].frame].page_id_)]
          /\ thr' = IF race = "crash" THEN thr ELSE [thr EXCEPT ![t].pc = "install"]
    /\ UNCHANGED <<latch_, frame_latch_>>

\* Lines 97-102; the frame latch is released on return.
FetchInstallStep(t) ==
    /\ ThreadFrame(t, "install")
    /\ bpm' = FetchInstall(bpm, thr[t].frame, thr[t].page_id, thr[t].buf)
    /\ frame_latch_' = [frame_latch_ EXCEPT ![thr[t].frame] = NoThread]
    /\ thr' = [thr EXCEPT ![t].pc = "done", ![t].ret = thr[t].frame]
    /\ UNCHANGED latch_

ThreadStep(t) ==
    \/ FetchLock(t)
    \/ FetchFind(t)
    \/ FetchHitLoad(t)
    \/ FetchHitStore(t)
    \/ FetchFrameLock(t)
    \/ FetchTouch(t)
    \/ FetchDiskRead(t)
    \/ FetchFlushOld(t)
    \/ FetchFlushFind(t)
    \/ FetchFlushDone(t)
    \/ FetchEraseBegin(t)
    \/ FetchEraseEnd(t)
    \/ FetchInstallStep(t)

NextConc ==
    \/ Next
    \/ StartConc
    \/ \E t \in Threads : ThreadStep(t)

SpecConc == InitConc /\ [][NextConc]_vars

(***************************************************************************)
(* The replacer on its own (SpecLruk): a caller makes RecordAccess,        *)
(* SetEvictable, Evict and Remove calls on an LRUKReplacer of LrukFrames   *)
(* frames.  lruk.r is the replacer, the other fields describe the call     *)
(* that led to the current state.                                          *)
(***************************************************************************)
BpmUnused ==
    /\ bpm = Unused
    /\ last = Unused
    /\ rt = Unused
    /\ phase = Unused
    /\ nsetup = Unused
    /\ latch_ = Unused
    /\ frame_latch_ = Unused
    /\ thr = Unused

NoLrukCall == [op |-> "none", frame_id |-> NullPage, ok |-> FALSE, ret |-> NullPage]

LrukState(r, call) ==
    [r |-> r, op |-> call.op, frame_id |-> call.frame_id, ok |-> call.ok, ret |-> call.ret]

InitLruk ==
    /\ BpmUnused
    /\ lruk = LrukState(ReplacerInit(LrukFrames, ReplacerK), NoLrukCall)
    /\ guards = Unused
    /\ htable = Unused
    /\ bucket = Unused
    /\ trie = Unused

\* The frame ids callers pass: those of the replacer, and one beyond them.
LrukFrameIds == 0 .. LrukFrames

LrukFrame == ~lruk.r.aborted /\ UNCHANGED <<bpmVars, guards, htable, bucket, trie>>

LrukRecordAccess ==
    \E frame_id \in LrukFrameIds :
        /\ LrukFrame
        /\ lruk.r.current_timestamp_ < MaxAccess
        /\ lruk' = LrukState(RecordAccess(lruk.r, frame_id),
                             [NoLrukCall EXCEPT !.op = "RecordAccess",
                                                !.frame_id = frame_id, !.ok = TRUE])

LrukSetEvictable ==
    \E frame_id \in LrukFrameIds, set_evictable \in BOOLEAN :
        /\ LrukFrame
        /\ lruk' = LrukState(SetEvictable(lruk.r, frame_id, set_evictable),
                             [NoLrukCall EXCEPT !.op = "SetEvictable",
                                                !.frame_id = frame_id, !.ok = set_evictable])

LrukEvict ==
    /\ LrukFrame
    /\ LET e == Evict(lruk.r)
       IN  lruk' = LrukState(e.r, [NoLrukCall EXCEPT !.op = "Evict", !.ok = e.ok,
                                                      !.ret = e.frame])

LrukRemove ==
    \E frame_id \in LrukFrameIds :
        /\ LrukFrame
        /\ lruk' = LrukState(Remove(lruk.r, frame_id),
                             [NoLrukCall EXCEPT !.op = "Remove", !.frame_id = frame_id,
                                                !.ok = TRUE])

NextLruk ==
    \/ LrukRecordAccess
    \/ LrukSetEvictable
    \/ LrukEvict
    \/ LrukRemove

SpecLruk == InitLruk /\ [][NextLruk]_vars

(***************************************************************************)
(* Page guards (SpecGuard): one caller holds up to NumGuards guard         *)
(* variables over a BufferPoolManager.  guards.s is the memory: the pool   *)
(* w, the guard objects slot[1..NumGuards] (slot[0] is the temporary of a  *)
(* FetchPageRead / FetchPageWrite expression), and each page's             *)
(* readers-writer latch.  A guard object is [kind, bpm_, page_, is_dirty_] *)
(* with page_ the frame it points to.  Two fields observe and are never    *)
(* read by the code: pin, the number of the pin a guard's page_ stands     *)
(* for, and unpins[n], the number of UnpinPage calls made for pin n.       *)
(***************************************************************************)
NoGuard == [kind |-> "none", bpm_ |-> FALSE, page_ |-> NullPage, pin |-> 0,
            is_dirty_ |-> FALSE]

GuardSlots == 1 .. NumGuards

Temporary == 0

\* BasicPageGuard(bpm, page) of page_guard.h.
BasicPageGuard(page, pin) ==
    [kind |-> "basic", bpm_ |-> TRUE, page_ |-> page, pin |-> pin, is_dirty_ |-> FALSE]

GuardsInit ==
    [ w       |-> BpmInit(PoolSize, ReplacerK),
      slot    |-> [g \in {Temporary} \cup GuardSlots |-> NoGuard],
      taken   |-> 0,
      unpins  |-> <<>>,
      readers |-> [f \in Frames |-> 0],
      writer  |-> [f \in Frames |-> FALSE],
      halted  |-> FALSE ]

\* this->page_ = nullptr; this->bpm_ = nullptr;
Emptied(s, this) ==
    [s EXCEPT !.slot[this].page_ = NullPage, !.slot[this].bpm_ = FALSE,
              !.slot[this].pin = 0]

\* BasicPageGuard::PageId of page_guard.h: page_->GetPageId().
PageId(s, this) == s.w.pages_[s.slot[this].page_].page_id_

BasicPageGuard_Drop(s, this) ==
    LET g == s.slot[this]
        unpinned == IF g.page_ # NullPage
                    THEN [s EXCEPT !.w = UnpinPage(s.w, PageId(s, this), g.is_dirty_).w,
                                   !.unpins[g.pin] = @ + 1]
                    ELSE s
    IN  Emptied(unpinned, this)

\* The move constructor: the new guard's is_dirty_ keeps its default.
BasicPageGuard_Move(s, this, that) ==
    LET moved == [s EXCEPT !.slot[this] =
                      [kind |-> "basic", bpm_ |-> s.slot[that].bpm_,
                       page_ |-> s.slot[that].page_, pin |-> s.slot[that].pin,
                       is_dirty_ |-> FALSE]]
    IN  Emptied(moved, that)

\* operator=(BasicPageGuard &&): the four assignments in order, so that
\* a guard assigned to itself ends up empty.
BasicPageGuard_Assign(s, this, that) ==
    LET moved == [s EXCEPT !.slot[this].page_ = s.slot[that].page_,
                           !.slot[this].bpm_ = s.slot[that].bpm_,
                           !.slot[this].pin = s.slot[that].pin]
    IN  Emptied(moved, that)

BasicPageGuard_Dtor(s, this) ==
    [BasicPageGuard_Drop(s, this) EXCEPT !.slot[this] = NoGuard]

\* Page::RLatch / WLatch / RUnlatch / WUnlatch of page.h.
RLatch(s, page) == [s EXCEPT !.readers[page] = @ + 1]

WLatch(s, page) == [s EXCEPT !.writer[page] = TRUE]

RUnlatch(s, page) == [s EXCEPT !.readers[page] = @ - 1]

WUnlatch(s, page) == [s EXCEPT !.writer[page] = FALSE]

CanRLatch(s, page) == ~s.writer[page]

CanWLatch(s, page) == ~s.writer[page] /\ s.readers[page] = 0

\* UpgradeRead on a guard whose page_ is set; temp is the returned guard.
UpgradeRead(s, this, temp) ==
    LET page == s.slot[this].page_
        made == [s EXCEPT !.slot[temp] =
                     [BasicPageGuard(page, s.slot[this].pin) EXCEPT !.kind = "read"]]
    IN  Emptied(RLatch(made, page), this)

\* UpgradeWrite; when the returned guard is move-constructed from temp
\* rather than built in place, WritePageGuard(WritePageGuard &&) sets
\* is_dirty_.
UpgradeWrite(s, this, temp, in_place) ==
    LET page == s.slot[this].page_
        made == [s EXCEPT !.slot[temp] =
                     [BasicPageGuard(page, s.slot[this].pin) EXCEPT
                          !.kind = "write", !.is_dirty_ = ~in_place]]
    IN  Emptied(WLatch(made, page), this)

\* ReadPageGuard(ReadPageGuard &&): guard_ is default-constructed, then
\* move-assigned.
ReadPageGuard_Move(s, this, that) ==
    BasicPageGuard_Assign([s EXCEPT !.slot[this] = [NoGuard EXCEPT !.kind = "read"]],
                          this, that)

ReadPageGuard_Assign(s, this, that) == BasicPageGuard_Assign(s, this, that)

ReadPageGuard_Drop(s, this) ==
    LET page == s.slot[this].page_
    IN  BasicPageGuard_Drop(IF page # NullPage THEN RUnlatch(s, page) ELSE s, this)

\* ~ReadPageGuard, then the destructor of its member guard_.
ReadPageGuard_Dtor(s, this) == BasicPageGuard_Dtor(ReadPageGuard_Drop(s, this), this)

WritePageGuard_Move(s, this, that) ==
    LET moved == BasicPageGuard_Assign(
                     [s EXCEPT !.slot[this] = [NoGuard EXCEPT !.kind = "write"]],
                     this, that)
    IN  [moved EXCEPT !.slot[this].is_dirty_ = TRUE]

WritePageGuard_Assign(s, this, that) == BasicPageGuard_Assign(s, this, that)

WritePageGuard_Drop(s, this) ==
    LET page == s.slot[this].page_
    IN  BasicPageGuard_Drop(IF page # NullPage THEN WUnlatch(s, page) ELSE s, this)

WritePageGuard_Dtor(s, this) == BasicPageGuard_Dtor(WritePageGuard_Drop(s, this), this)

\* A guard built around the page a FetchPage or NewPage returned; a page
\* that is not null carries a pin, numbered taken + 1.
Guarded(s, this, page) ==
    IF page = NullPage
    THEN [s EXCEPT !.slot[this] = BasicPageGuard(NullPage, 0)]
    ELSE [s EXCEPT !.slot[this] = BasicPageGuard(page, s.taken + 1),
                   !.taken = @ + 1,
                   !.unpins = Append(@, 0)]

FetchPageBasic(s, this, page_id) ==
    LET res == FetchPage(s.w, page_id)
    IN  Guarded([s EXCEPT !.w = res.w], this, res.page)

NewPageGuarded(s, this) ==
    LET res == NewPage(s.w)
    IN  Guarded([s EXCEPT !.w = res.w], this, res.page)

\* page_->RLatch() or page_->WLatch() through a null page_ ends the process.
Halted(s) == [s EXCEPT !.halted = TRUE]

GuardState(s, op, this) == [s |-> s, op |-> op, this |-> this]

InitGuard ==
    /\ BpmUnused
    /\ lruk = Unused
    /\ guards = GuardState(GuardsInit, "none", Temporary)
    /\ htable = Unused
    /\ bucket = Unused
    /\ trie = Unused

GuardFrame ==
    /\ ~guards.s.halted
    /\ Alive(guards.s.w)
    /\ UNCHANGED <<bpmVars, lruk, htable, bucket, trie>>

Live(this) == guards.s.slot[this].kind # "none"

\* The calls FetchPage is given here: ids AllocatePage handed out, within
\* the bounds on pins and timestamps.
CanFetch(page_id) ==
    /\ page_id < guards.s.w.next_page_id_
    /\ guards.s.taken < MaxGuardPins
    /\ IF Resident(guards.s.w, page_id)
       THEN guards.s.w.pages_[guards.s.w.page_table_[page_id]].pin_count_ < MaxPin
       ELSE guards.s.w.replacer_.current_timestamp_ < MaxTimestamp

GuardFetchPageBasic ==
    \E this \in GuardSlots, page_id \in PageIds :
        /\ GuardFrame
        /\ ~Live(this)
        /\ CanFetch(page_id)
        /\ guards' = GuardState(FetchPageBasic(guards.s, this, page_id),
                                "FetchPageBasic", this)

GuardNewPageGuarded ==
    \E this \in GuardSlots :
        /\ GuardFrame
        /\ ~Live(this)
        /\ guards.s.taken < MaxGuardPins
        /\ guards.s.w.next_page_id_ < MaxPages
        /\ guards.s.w.replacer_.current_timestamp_ < MaxTimestamp
        /\ guards' = GuardState(NewPageGuarded(guards.s, this), "NewPageGuarded", this)

\* FetchPageBasic(page_id).UpgradeRead(): the temporary is destroyed at
\* the end of the expression.  A caller does not ask for a latch that it
\* holds itself in a mode that excludes the request: that call would never
\* return.
GuardFetchPageRead ==
    \E this \in GuardSlots, page_id \in PageIds :
        /\ GuardFrame
        /\ ~Live(this)
        /\ CanFetch(page_id)
        /\ \E fetched \in {FetchPageBasic(guards.s, Temporary, page_id)} :
               \E page \in {fetched.slot[Temporary].page_} :
                   IF page = NullPage
                   THEN guards' = GuardState(Halted(fetched), "FetchPageRead", this)
                   ELSE /\ CanRLatch(fetched, page)
                        /\ guards' = GuardState(
                               BasicPageGuard_Dtor(UpgradeRead(fetched, Temporary, this),
                                                   Temporary),
                               "FetchPageRead", this)

GuardFetchPageWrite ==
    \E this \in GuardSlots, page_id \in PageIds, in_place \in BOOLEAN :
        /\ GuardFrame
        /\ ~Live(this)
        /\ CanFetch(page_id)
        /\ \E fetched \in {FetchPageBasic(guards.s, Temporary, page_id)} :
               \E page \in {fetched.slot[Temporary].page_} :
                   IF page = NullPage
                   THEN guards' = GuardState(Halted(fetched), "FetchPageWrite", this)
                   ELSE /\ CanWLatch(fetched, page)
                        /\ guards' = GuardState(
                               BasicPageGuard_Dtor(
                                   UpgradeWrite(fetched, Temporary, this, in_place),
                                   Temporary),
                               "FetchPageWrite", this)

GuardUpgradeRead ==
    \E this \in GuardSlots, temp \in GuardSlots :
        /\ GuardFrame
        /\ guards.s.slot[this].kind = "basic"
        /\ ~Live(temp)
        /\ LET page == guards.s.slot[this].page_
           IN  IF page = NullPage
               THEN guards' = GuardState(Halted(guards.s), "UpgradeRead", this)
               ELSE /\ CanRLatch(guards.s, page)
                    /\ guards' = GuardState(UpgradeRead(guards.s, this, temp),
                                            "UpgradeRead", this)

GuardUpgradeWrite ==
    \E this \in GuardSlots, temp \in GuardSlots, in_place \in BOOLEAN :
        /\ GuardFrame
        /\ guards.s.slot[this].kind = "basic"
        /\ ~Live(temp)
        /\ LET page == guards.s.slot[this].page_
           IN  IF page = NullPage
               THEN guards' = GuardState(Halted(guards.s), "UpgradeWrite", this)
               ELSE /\ CanWLatch(guards.s, page)
                    /\ guards' = GuardState(
                           UpgradeWrite(guards.s, this, temp, in_place),
                           "UpgradeWrite", this)

\* A guard variable is move-constructed from another of the same type.
GuardMove ==
    \E this \in GuardSlots, that \in GuardSlots :
        /\ GuardFrame
        /\ ~Live(this)
        /\ Live(that)
        /\ LET kind == guards.s.slot[that].kind
           IN  guards' = GuardState(
                   IF kind = "basic" THEN BasicPageGuard_Move(guards.s, this, that)
                   ELSE IF kind = "read" THEN ReadPageGuard_Move(guards.s, this, that)
                   ELSE WritePageGuard_Move(guards.s, this, that),
                   "Move", this)

\* A guard is move-assigned from one of the same type, itself included.
GuardAssign ==
    \E this \in GuardSlots, that \in GuardSlots :
        /\ GuardFrame
        /\ Live(this)
        /\ guards.s.slot[that].kind = guards.s.slot[this].kind
        /\ LET kind == guards.s.slot[this].kind
           IN  guards' = GuardState(
                   IF kind = "basic" THEN BasicPageGuard_Assign(guards.s, this, that)
                   ELSE IF kind = "read" THEN ReadPageGuard_Assign(guards.s, this, that)
                   ELSE WritePageGuard_Assign(guards.s, this, that),
                   "Assign", this)

GuardDrop ==
    \E this \in GuardSlots :
        /\ GuardFrame
        /\ Live(this)
        /\ LET kind == guards.s.slot[this].kind
           IN  guards' = GuardState(
                   IF kind = "basic" THEN BasicPageGuard_Drop(guards.s, this)
                   ELSE IF kind = "read" THEN ReadPageGuard_Drop(guards.s, this)
                   ELSE WritePageGuard_Drop(guards.s, this),
                   "Drop", this)

\* A guard variable goes out of scope.
GuardDtor ==
    \E this \in GuardSlots :
        /\ GuardFrame
        /\ Live(this)
        /\ LET kind == guards.s.slot[this].kind
           IN  guards' = GuardState(
                   IF kind = "basic" THEN BasicPageGuard_Dtor(guards.s, this)
                   ELSE IF kind = "read" THEN ReadPageGuard_Dtor(guards.s, this)
                   ELSE WritePageGuard_Dtor(guards.s, this),
                   "Dtor", this)

NextGuard ==
    \/ GuardFetchPageBasic
    \/ GuardNewPageGuarded
    \/ GuardFetchPageRead
    \/ GuardFetchPageWrite
    \/ GuardUpgradeRead
    \/ GuardUpgradeWrite
    \/ GuardMove
    \/ GuardAssign
    \/ GuardDrop
    \/ GuardDtor

SpecGuard == InitGuard /\ [][NextGuard]_vars

(***************************************************************************)
(* The bucket page (SpecBucket): a caller makes Insert and Remove calls on *)
(* one ExtendibleHTableBucketPage<int, int, IntComparator> that was        *)
(* initialised on a zeroed page.  A bucket is [size_, max_size_, array_];  *)
(* array_ holds the keys (the value of an entry travels with its key and   *)
(* decides nothing) and is longer than max_size_, as in the page, where    *)
(* the array fills the page.  bucket.b is the page, bucket.keys the keys   *)
(* inserted and not removed, the other fields describe the last call.      *)
(***************************************************************************)
Keys == 0 .. MaxKey

\* The slots of array_ that calls can touch while size_ <= max_size_.
ArraySlots(max_size) == 0 .. max_size

\* A page as NewPage hands it out: ResetMemory has zeroed it.
ZeroedBucket(max_size) ==
    [size_ |-> 0, max_size_ |-> 0, array_ |-> [i \in ArraySlots(max_size) |-> 0]]

\* ExtendibleHTableBucketPage::Init.
Bucket_Init(b, max_size) == [b EXCEPT !.max_size_ = max_size]

\* IntComparator: -1, 0 or 1.
cmp(lhs, rhs) == IF lhs < rhs THEN -1 ELSE IF lhs > rhs THEN 1 ELSE 0

RECURSIVE BinSearchLoop(_, _, _, _)
BinSearchLoop(b, key, left, right) ==
    IF left < right
    THEN LET mid == left + ((right - left) \div 2)
         IN  IF cmp(b.array_[mid], key) = -1
             THEN BinSearchLoop(b, key, mid + 1, right)
             ELSE BinSearchLoop(b, key, left, mid)
    ELSE left

BinSearch(b, key) == BinSearchLoop(b, key, 0, b.size_)

Bucket_Size(b) == b.size_

IsFull(b) == b.size_ = b.max_size_

IsEmpty(b) == b.size_ = 0

\* for(int i = idx; i < size_; i++) array_[i+1] = array_[i];
RECURSIVE ShiftUp(_, _, _)
ShiftUp(array, i, size) ==
    IF i < size
    THEN ShiftUp([array EXCEPT ![i + 1] = array[i]], i + 1, size)
    ELSE array

\* for(int i = idx; i < size_; i++) array_[i] = array_[i+1];
RECURSIVE ShiftDown(_, _, _)
ShiftDown(array, i, size) ==
    IF i < size
    THEN ShiftDown([array EXCEPT ![i] = array[i + 1]], i + 1, size)
    ELSE array

Bucket_Insert(b, key) ==
    IF IsFull(b)
    THEN [ok |-> FALSE, b |-> b]
    ELSE LET idx == BinSearch(b, key)
             shifted == ShiftUp(b.array_, idx, b.size_)
         IN  IF cmp(b.array_[idx], key) = 0
             THEN [ok |-> FALSE, b |-> b]
             ELSE [ok |-> TRUE,
                   b |-> [b EXCEPT !.size_ = b.size_ + 1,
                                   !.array_ = [shifted EXCEPT ![idx] = key]]]

\* size_ is a uint32_t: size_-- on 0 wraps to 0xFFFFFFFF.
Bucket_Remove(b, key) ==
    LET idx == BinSearch(b, key)
    IN  IF cmp(b.array_[idx], key) # 0
        THEN [ok |-> FALSE, b |-> b]
        ELSE [ok |-> TRUE,
              b |-> [b EXCEPT !.size_ = IF b.size_ = 0 THEN UInt32Max ELSE b.size_ - 1,
                              !.array_ = ShiftDown(b.array_, idx, b.size_)]]

\* With size_ at 0xFFFFFFFF the binary search of the next call reads far
\* outside the page.
Wrapped(b) == b.size_ = UInt32Max

BucketState(b, keys, op, key, ok, crashed) ==
    [b |-> b, keys |-> keys, op |-> op, key |-> key, ok |-> ok, crashed |-> crashed]

InitBucket ==
    /\ BpmUnused
    /\ lruk = Unused
    /\ guards = Unused
    /\ htable = Unused
    /\ bucket = BucketState(Bucket_Init(ZeroedBucket(BucketMaxSize), BucketMaxSize),
                            {}, "none", 0, FALSE, FALSE)
    /\ trie = Unused

BucketFrame ==
    /\ ~bucket.crashed
    /\ UNCHANGED <<bpmVars, lruk, guards, htable, trie>>

BucketInsert ==
    \E key \in Keys :
        /\ BucketFrame
        /\ IF Wrapped(bucket.b)
           THEN bucket' = BucketState(bucket.b, bucket.keys, "Insert", key, FALSE, TRUE)
           ELSE \E res \in {Bucket_Insert(bucket.b, key)} :
                    bucket' = BucketState(res.b,
                                  IF res.ok THEN bucket.keys \cup {key} ELSE bucket.keys,
                                  "Insert", key, res.ok, FALSE)

BucketRemove ==
    \E key \in Keys :
        /\ BucketFrame
        /\ IF Wrapped(bucket.b)
           THEN bucket' = BucketState(bucket.b, bucket.keys, "Remove", key, FALSE, TRUE)
           ELSE \E res \in {Bucket_Remove(bucket.b, key)} :
                    bucket' = BucketState(res.b,
                                  IF res.ok THEN bucket.keys \ {key} ELSE bucket.keys,
                                  "Remove", key, res.ok, FALSE)

NextBucket ==
    \/ BucketInsert
    \/ BucketRemove

SpecBucket == InitBucket /\ [][NextBucket]_vars

(***************************************************************************)
(* The extendible hash table (SpecHash): one caller makes Insert and       *)
(* Remove calls on a DiskExtendibleHashTable<int, int, IntComparator>.     *)
(* htable.header is the header page, htable.dirs and htable.buckets map    *)
(* the page ids of the directory and bucket pages to their contents; the   *)
(* buffer pool is taken to have a frame for every page the table asks      *)
(* for, so NewPageGuarded hands out the next page id and FetchPageWrite    *)
(* the page.  Insert is taken in steps, one per round of its loop:         *)
(* htable.pc is "idle" between calls and "loop" at the loop test of line   *)
(* 121, where htable.key, dir_page_id_, buc_ind and buc_page_id_ are the   *)
(* locals of the call.  htable.op, htable.ok and htable.result describe    *)
(* the last call that returned.  A bucket holds the keys only; the values  *)
(* are kept beside the table: htable.inserted maps every key whose last    *)
(* Insert returned true, with no Remove returning true since, to the value *)
(* of that Insert, and htable.undisturbed holds the keys of these that no  *)
(* Remove call has named since.                                            *)
(***************************************************************************)
\* hash_fn_ of the tests: the key itself.
Hash(key) == key

HValues == 1 .. MaxHValue

Pow2(n) == 2 ^ n

\* ExtendibleHTableHeaderPage of extendible_htable_header_page.cpp.
Header_Init(max_depth) ==
    [max_depth_ |-> max_depth,
     directory_page_ids_ |-> [i \in 0 .. (Pow2(max_depth) - 1) |-> NoPage]]

HashToDirectoryIndex(header, hash) == hash \div Pow2(32 - header.max_depth_)

\* A page as NewPage hands it out, seen as a directory page.
ZeroedDirectory ==
    [max_depth_ |-> 0, global_depth_ |-> 0,
     local_depths_ |-> [i \in 0 .. (Pow2(DirectoryMaxDepth) - 1) |-> 0],
     bucket_page_ids_ |-> [i \in 0 .. (Pow2(DirectoryMaxDepth) - 1) |-> NoPage]]

\* ExtendibleHTableDirectoryPage::Init.
Dir_Init(dir, max_depth) ==
    [dir EXCEPT !.max_depth_ = max_depth,
                !.bucket_page_ids_ = [i \in DOMAIN @ |-> INVALID_PAGE_ID]]

HashToBucketIndex(dir, hash) == hash % Pow2(dir.global_depth_)

Dir_Size(dir) == Pow2(dir.global_depth_)

\* local_depths_ holds uint8_t.
Dir_IncrLocalDepth(dir, bucket_idx) ==
    [dir EXCEPT !.local_depths_[bucket_idx] = (@ + 1) % UInt8]

Dir_DecrLocalDepth(dir, bucket_idx) ==
    [dir EXCEPT !.local_depths_[bucket_idx] = (@ - 1) % UInt8]

\* The constructor: the header page is the first page of the pool.
HTableInit ==
    [header |-> Header_Init(HeaderMaxDepth),
     dirs |-> <<>>,
     buckets |-> <<>>,
     next_page_id_ |-> 1,
     pc |-> "idle", key |-> 0, value |-> 0, dir_page_id_ |-> NoPage, buc_ind |-> 0,
     buc_page_id_ |-> NoPage,
     op |-> "none", ok |-> FALSE, result |-> <<>>, crashed |-> FALSE,
     inserted |-> <<>>, undisturbed |-> {},
     frames |-> -1, no_frame |-> FALSE]

Returned(t, op, key, ok) ==
    [t EXCEPT !.pc = "idle", !.op = op, !.key = key, !.ok = ok, !.result = <<>>]

\* t.frames is the number of pages the pool can still hand out to
\* NewPageGuarded, -1 for as many as are asked for: NewPage returns
\* nullptr, and leaves the page id at 0, when there is no free frame and
\* none to evict.  t.no_frame observes that this happened in the call.
PoolHasFrame(t) == t.frames # 0

FrameTaken(t) == [t EXCEPT !.frames = IF @ > 0 THEN @ - 1 ELSE @]

InsertToNewBucket(t, dir_page_id, bucket_idx, key) ==
    LET bucket_page_id == t.next_page_id_
        res == Bucket_Insert(Bucket_Init(ZeroedBucket(HTableBucketMaxSize),
                                         HTableBucketMaxSize), key)
    IN  IF ~PoolHasFrame(t)
        THEN [ok |-> FALSE, t |-> [t EXCEPT !.no_frame = TRUE]]
        ELSE [ok |-> res.ok,
              t |-> [FrameTaken(t) EXCEPT
                         !.next_page_id_ = @ + 1,
                         !.dirs[dir_page_id].bucket_page_ids_[bucket_idx] = bucket_page_id,
                         !.buckets = MapPut(@, bucket_page_id, res.b)]]

InsertToNewDirectory(t, directory_idx, hash, key) ==
    LET directory_page_id == t.next_page_id_
        dir_page == Dir_Init(ZeroedDirectory, DirectoryMaxDepth)
        made == [FrameTaken(t) EXCEPT
                     !.next_page_id_ = @ + 1,
                     !.header.directory_page_ids_[directory_idx] = directory_page_id,
                     !.dirs = MapPut(@, directory_page_id, dir_page)]
    IN  IF ~PoolHasFrame(t)
        THEN [ok |-> FALSE, t |-> [t EXCEPT !.no_frame = TRUE]]
        ELSE InsertToNewBucket(made, directory_page_id,
                               HashToBucketIndex(dir_page, hash), key)

\* Insert, lines 102-120: up to the loop.
InsertEnter(t, key) ==
    LET hash == Hash(key)
        directory_idx == HashToDirectoryIndex(t.header, hash)
        dir_page_id == t.header.directory_page_ids_[directory_idx]
        buc_ind == HashToBucketIndex(t.dirs[dir_page_id], hash)
        buc_page_id == t.dirs[dir_page_id].bucket_page_ids_[buc_ind]
    IN  IF dir_page_id = NoPage
        THEN LET res == InsertToNewDirectory(t, directory_idx, hash, key)
             IN  Returned(res.t, "Insert", key, res.ok)
        ELSE IF buc_page_id = NoPage
        THEN LET res == InsertToNewBucket(t, dir_page_id, buc_ind, key)
             IN  Returned(res.t, "Insert", key, res.ok)
        ELSE [t EXCEPT !.pc = "loop", !.key = key, !.dir_page_id_ = dir_page_id,
                       !.buc_ind = buc_ind, !.buc_page_id_ = buc_page_id]

\* A loop that gives up after one round.
InsertRound_Once(t) ==
    LET hash == Hash(t.key)
        grown == [t EXCEPT !.dirs[t.dir_page_id_] = Dir_IncrLocalDepth(@, t.buc_ind)]
    IN  IF ~IsFull(t.buckets[t.buc_page_id_])
        THEN Returned([t EXCEPT !.buckets[t.buc_page_id_] =
                                    Bucket_Insert(@, t.key).b], "Insert", t.key, TRUE)
        ELSE Returned(grown, "Insert", t.key, FALSE)

\* Insert, lines 121-136: the loop test and either one round of the loop
\* or the lines after it.  buc_page is the page of buc_page_id_, except
\* after the break of line 129, which leaves it at the bucket that was
\* full.
InsertRound(t) ==
    LET hash == Hash(t.key)
        grown == [t EXCEPT !.dirs[t.dir_page_id_] = Dir_IncrLocalDepth(@, t.buc_ind)]
        buc_ind == HashToBucketIndex(grown.dirs[t.dir_page_id_], hash)
        buc_page_id == grown.dirs[t.dir_page_id_].bucket_page_ids_[buc_ind]
    IN  IF ~IsFull(t.buckets[t.buc_page_id_])
        THEN Returned([t EXCEPT !.buckets[t.buc_page_id_] =
                                    Bucket_Insert(@, t.key).b], "Insert", t.key, TRUE)
        ELSE IF buc_page_id = NoPage
        THEN Returned(InsertToNewBucket(grown, t.dir_page_id_, buc_ind, t.key).t,
                      "Insert", t.key, TRUE)
        ELSE [grown EXCEPT !.buc_ind = buc_ind, !.buc_page_id_ = buc_page_id]

\* bucket_idx ^ (1 << ld)
FlipBit(bucket_idx, ld) ==
    IF (bucket_idx \div Pow2(ld)) % 2 = 1
    THEN bucket_idx - Pow2(ld)
    ELSE bucket_idx + Pow2(ld)

\* Remove, lines 244-249.
RECURSIVE Repoint(_, _, _, _)
Repoint(dir, idx, buc_page_id, new_page_id) ==
    IF idx < Dir_Size(dir)
    THEN Repoint(IF dir.bucket_page_ids_[idx] \in {buc_page_id, new_page_id}
                 THEN Dir_DecrLocalDepth(
                          [dir EXCEPT !.bucket_page_ids_[idx] = new_page_id], idx)
                 ELSE dir,
                 idx + 1, buc_page_id, new_page_id)
    ELSE dir

\* Remove, lines 237-260: the loop over empty buckets.  A slot index
\* outside the directory arrays, or a page id that is no bucket's, ends
\* the process.
RECURSIVE RemoveLoop(_, _, _, _, _)
RemoveLoop(t, dir_page_id, bucket_idx, buc_page_id, buc_page) ==
    LET dir == t.dirs[dir_page_id]
        ld == dir.local_depths_[bucket_idx]
        new_buc_idx == FlipBit(bucket_idx, ld)
        new_page_id == dir.bucket_page_ids_[new_buc_idx]
    IN  IF buc_page \notin DOMAIN t.buckets
        THEN [t EXCEPT !.crashed = TRUE]
        ELSE IF ~IsEmpty(t.buckets[buc_page]) \/ ld = 0
        THEN t
        ELSE IF new_buc_idx \notin DOMAIN dir.local_depths_
        THEN [t EXCEPT !.crashed = TRUE]
        ELSE IF ld = dir.local_depths_[new_buc_idx]
        THEN RemoveLoop([t EXCEPT !.dirs[dir_page_id] =
                                      Repoint(dir, 0, buc_page_id, new_page_id)],
                        dir_page_id, new_buc_idx, buc_page_id, new_page_id)
        ELSE t

\* DiskExtendibleHashTable::Remove.
HTable_Remove(t, key) ==
    LET hash == Hash(key)
        directory_idx == HashToDirectoryIndex(t.header, hash)
        dir_page_id == t.header.directory_page_ids_[directory_idx]
        bucket_idx == HashToBucketIndex(t.dirs[dir_page_id], hash)
        buc_page_id == t.dirs[dir_page_id].bucket_page_ids_[bucket_idx]
        res == Bucket_Remove(t.buckets[buc_page_id], key)
    IN  IF dir_page_id = NoPage
        THEN Returned(t, "Remove", key, FALSE)
        ELSE IF buc_page_id = NoPage
        THEN Returned(t, "Remove", key, FALSE)
        ELSE IF ~res.ok
        THEN Returned(t, "Remove", key, FALSE)
        ELSE Returned(RemoveLoop([t EXCEPT !.buckets[buc_page_id] = res.b],
                                 dir_page_id, bucket_idx, buc_page_id, buc_page_id),
                      "Remove", key, TRUE)

\* ExtendibleHTableBucketPage::Lookup: value is never assigned.
Lookup(b, key) == cmp(b.array_[BinSearch(b, key)], key) = 0

\* DiskExtendibleHashTable::GetValue.  uninit is what the local V value of
\* line 89 holds: Lookup leaves it as it was declared.  A bucket page id
\* that is no page's ends the process at line 85.
HTable_GetValue(t, key, uninit) ==
    LET hash == Hash(key)
        dir_ind == HashToDirectoryIndex(t.header, hash)
        dir_page_id == t.header.directory_page_ids_[dir_ind]
        buc_ind == HashToBucketIndex(t.dirs[dir_page_id], hash)
        buc_page_id == t.dirs[dir_page_id].bucket_page_ids_[buc_ind]
    IN  IF dir_page_id = NoPage
        THEN Returned(t, "GetValue", key, FALSE)
        ELSE IF buc_page_id \notin DOMAIN t.buckets
        THEN [t EXCEPT !.crashed = TRUE]
        ELSE IF ~Lookup(t.buckets[buc_page_id], key)
        THEN Returned(t, "GetValue", key, FALSE)
        ELSE [Returned(t, "GetValue", key, TRUE) EXCEPT !.result = <<uninit>>]

\* The bookkeeping of htable.inserted and htable.undisturbed when a call
\* has returned.
Noted(t) ==
    IF t.pc = "idle" /\ t.op = "Insert" /\ t.ok
    THEN [t EXCEPT !.inserted = MapPut(@, t.key, t.value),
                   !.undisturbed = @ \cup {t.key}]
    ELSE IF t.pc = "idle" /\ t.op = "Remove"
    THEN [t EXCEPT !.inserted = IF t.ok THEN MapErase(@, t.key) ELSE @,
                   !.undisturbed = @ \ {t.key}]
    ELSE t

\* A bucket whose size_ wrapped makes the next binary search read outside
\* the page.
AnyWrapped(t) == \E id \in DOMAIN t.buckets : Wrapped(t.buckets[id])

InitHash ==
    /\ BpmUnused
    /\ lruk = Unused
    /\ guards = Unused
    /\ htable = HTableInit
    /\ bucket = Unused
    /\ trie = Unused

HashFrame ==
    /\ ~htable.crashed
    /\ ~AnyWrapped(htable)
    /\ UNCHANGED <<bpmVars, lruk, guards, bucket, trie>>

HTableInsert ==
    \E key \in Keys, value \in HValues :
        /\ HashFrame
        /\ htable.pc = "idle"
        /\ htable' = Noted(InsertEnter([htable EXCEPT !.value = value], key))

HTableInsertRound ==
    /\ HashFrame
    /\ htable.pc = "loop"
    /\ htable' = Noted(InsertRound(htable))

HTableRemove ==
    \E key \in Keys :
        /\ HashFrame
        /\ htable.pc = "idle"
        /\ htable' = Noted(HTable_Remove(htable, key))

HTableGetValue ==
    \E key \in Keys, uninit \in {0} \cup HValues :
        /\ HashFrame
        /\ htable.pc = "idle"
        /\ htable' = HTable_GetValue(htable, key, uninit)

NextHash ==
    \/ HTableInsert
    \/ HTableInsertRound
    \/ HTableRemove
    \/ HTableGetValue

\* A call that has started goes on running.
SpecHash == InitHash /\ [][NextHash]_vars /\ WF_vars(HTableInsertRound)

(***************************************************************************)
(* The split on its own (SpecSplit).  Insert never calls the table's       *)
(* IncrLocalDepth, nor the directory's IncrGlobalDepth; here a caller      *)
(* fills buckets with Insert calls that find room, and calls               *)
(* IncrGlobalDepth on a directory and IncrLocalDepth on a full bucket      *)
(* itself.  The state is htable, as in SpecHash; after IncrLocalDepth,     *)
(* htable.dir_page_id_, buc_ind and buc_page_id_ name the directory, the   *)
(* slot and the bucket page that was split.                                *)
(***************************************************************************)
\* hash & (1 << bit)
BitSet(hash, bit) == (hash \div Pow2(bit)) % 2 = 1

\* ExtendibleHTableDirectoryPage::GetSplitImageIndex.
GetSplitImageIndex(dir, bucket_idx) == FlipBit(bucket_idx, dir.global_depth_)

\* ExtendibleHTableDirectoryPage::IncrGlobalDepth: the loop writes the
\* slots from Size() up and reads the slots below.
IncrGlobalDepth(dir) ==
    LET copied(array) ==
            [i \in DOMAIN array |->
                IF i >= Dir_Size(dir) /\ i < 2 * Dir_Size(dir)
                THEN array[GetSplitImageIndex(dir, i)] ELSE array[i]]
    IN  [dir EXCEPT !.bucket_page_ids_ = copied(@),
                    !.local_depths_ = copied(@),
                    !.global_depth_ = @ + 1]

\* ExtendibleHTableBucketPage::EntryAt.
EntryAt(b, bucket_idx) == b.array_[0]

\* Lines 187-192.
RECURSIVE Redistribute(_, _, _, _)
Redistribute(old_buc_page, idx, mask_bit, pages) ==
    IF idx < Bucket_Size(old_buc_page)
    THEN LET key == EntryAt(old_buc_page, idx)
         IN  Redistribute(old_buc_page, idx + 1, mask_bit,
                 IF BitSet(Hash(key), mask_bit)
                 THEN [pages EXCEPT !.buc2 = Bucket_Insert(@, key).b]
                 ELSE [pages EXCEPT !.buc1 = Bucket_Insert(@, key).b])
    ELSE pages

\* Lines 195-201.
RECURSIVE RepointSplit(_, _, _, _, _, _)
RepointSplit(dir, idx, mask_bit, old_page_id, buc1_page_id, buc2_page_id) ==
    IF idx < Dir_Size(dir)
    THEN RepointSplit(
             IF dir.bucket_page_ids_[idx] = old_page_id
             THEN [Dir_IncrLocalDepth(dir, idx) EXCEPT
                      !.bucket_page_ids_[idx] =
                          IF BitSet(idx, mask_bit) THEN buc2_page_id ELSE buc1_page_id]
             ELSE dir,
             idx + 1, mask_bit, old_page_id, buc1_page_id, buc2_page_id)
    ELSE dir

\* DiskExtendibleHashTable::IncrLocalDepth.  The two pages come zeroed
\* from NewPageGuarded and Init is not called on them.
HTable_IncrLocalDepth(t, dir_page_id, bucket_idx) ==
    LET directory == t.dirs[dir_page_id]
        old_page_id == directory.bucket_page_ids_[bucket_idx]
        mask_bit == directory.local_depths_[bucket_idx] + 1
        buc1_page_id == t.next_page_id_
        buc2_page_id == t.next_page_id_ + 1
        pages == Redistribute(t.buckets[old_page_id], 0, mask_bit,
                     [buc1 |-> ZeroedBucket(HTableBucketMaxSize),
                      buc2 |-> ZeroedBucket(HTableBucketMaxSize)])
    IN  [t EXCEPT !.next_page_id_ = @ + 2,
                  !.buckets = MapPut(MapPut(@, buc1_page_id, pages.buc1),
                                     buc2_page_id, pages.buc2),
                  !.dirs[dir_page_id] =
                      RepointSplit(directory, 0, mask_bit, old_page_id,
                                   buc1_page_id, buc2_page_id),
                  !.pc = "idle", !.op = "IncrLocalDepth", !.ok = TRUE, !.result = <<>>,
                  !.dir_page_id_ = dir_page_id, !.buc_ind = bucket_idx,
                  !.buc_page_id_ = old_page_id]

\* An Insert that finds the pages it needs and room in the bucket.
SplitInsert ==
    \E key \in Keys, value \in HValues :
        /\ HashFrame
        /\ htable.pc = "idle"
        /\ \E entered \in {InsertEnter([htable EXCEPT !.value = value], key)} :
              IF entered.pc = "idle"
              THEN htable' = Noted(entered)
              ELSE /\ entered.buc_page_id_ \in DOMAIN entered.buckets
                   /\ ~IsFull(entered.buckets[entered.buc_page_id_])
                   /\ htable' = Noted(InsertRound(entered))

SplitGrow ==
    \E dir_page_id \in DOMAIN htable.dirs :
        /\ HashFrame
        /\ htable.pc = "idle"
        /\ htable.dirs[dir_page_id].global_depth_ < DirectoryMaxDepth
        /\ htable' = [htable EXCEPT !.dirs[dir_page_id] = IncrGlobalDepth(@),
                                    !.op = "IncrGlobalDepth", !.result = <<>>]

SplitBucket ==
    \E dir_page_id \in DOMAIN htable.dirs :
        \E bucket_idx \in 0 .. (Dir_Size(htable.dirs[dir_page_id]) - 1) :
            /\ HashFrame
            /\ htable.pc = "idle"
            /\ htable.next_page_id_ + 2 <= MaxTablePages
            /\ htable.dirs[dir_page_id].bucket_page_ids_[bucket_idx] \in DOMAIN htable.buckets
            /\ \E old \in {htable.buckets[htable.dirs[dir_page_id].bucket_page_ids_[bucket_idx]]} :
                  IsFull(old) /\ ~IsEmpty(old)
            /\ htable' = HTable_IncrLocalDepth(htable, dir_page_id, bucket_idx)

NextSplit ==
    \/ SplitInsert
    \/ SplitGrow
    \/ SplitBucket

SpecSplit == InitHash /\ [][NextSplit]_vars

(***************************************************************************)
(* GetValue step by step beside a writer (SpecGet).  thr is the thread     *)
(* that runs GetValue: its pc is its position in the function,             *)
(*                                                                         *)
(*   "idle"       not in a call                                            *)
(*   "header"     after line 62: header_guard is held                      *)
(*   "dir_fetch"  after line 69: header_guard is dropped                   *)
(*   "dir"        after line 74: dir_guard is held                         *)
(*   "buc_fetch"  after line 81: dir_guard is dropped                      *)
(*   "buc"        after line 84: buc_guard is held                         *)
(*   "lookup"     after line 88: buc_guard is dropped                      *)
(*                                                                         *)
(* and header_guard, dir_guard and buc_guard are the page ids the guards   *)
(* hold, NullPage for none.  A second thread calls Insert and Remove; its  *)
(* calls take write guards on the pages they use, so they run while the    *)
(* reader holds no guard, and they are taken whole.  Two fields observe    *)
(* and are never read by the code: read, the page whose contents the last  *)
(* step read (NullPage for none), and dropped, the bucket page as it was   *)
(* when buc_guard was dropped.                                             *)
(***************************************************************************)
HeaderPageId == 0

GetIdle ==
    [pc |-> "idle", key |-> 0, header_guard |-> NullPage, dir_guard |-> NullPage,
     buc_guard |-> NullPage, dir_page_id_ |-> NoPage, buc_page_id_ |-> NoPage,
     read |-> NullPage, dropped |-> <<>>, op |-> "none", ok |-> FALSE, result |-> <<>>]

InitGet ==
    /\ bpm = Unused
    /\ last = Unused
    /\ rt = Unused
    /\ phase = Unused
    /\ nsetup = Unused
    /\ latch_ = Unused
    /\ frame_latch_ = Unused
    /\ thr = GetIdle
    /\ lruk = Unused
    /\ guards = Unused
    /\ htable = HTableInit
    /\ bucket = Unused
    /\ trie = Unused

GetFrame ==
    /\ ~htable.crashed
    /\ ~AnyWrapped(htable)
    /\ UNCHANGED <<bpm, last, rt, phase, nsetup, latch_, frame_latch_,
                   lruk, guards, bucket, trie>>

\* The guards the reader holds.
HeldGuards(t) == {t.header_guard, t.dir_guard, t.buc_guard} \ {NullPage}

\* Lines 59-62.
GetValueCall ==
    \E key \in Keys :
        /\ GetFrame
        /\ thr.pc = "idle"
        /\ thr' = [GetIdle EXCEPT !.pc = "header", !.key = key,
                                  !.header_guard = HeaderPageId]
        /\ UNCHANGED htable

\* Lines 63-71.
GetValueHeader ==
    /\ GetFrame
    /\ thr.pc = "header"
    /\ \E dir_page_id \in {htable.header.directory_page_ids_[
                               HashToDirectoryIndex(htable.header, Hash(thr.key))]} :
           thr' = [thr EXCEPT !.read = HeaderPageId,
                              !.dir_page_id_ = dir_page_id,
                              !.header_guard = NullPage,
                              !.pc = IF dir_page_id = NoPage THEN "idle" ELSE "dir_fetch",
                              !.op = IF dir_page_id = NoPage THEN "GetValue" ELSE @,
                              !.ok = FALSE]
    /\ UNCHANGED htable

\* Lines 73-74.
GetValueDirFetch ==
    /\ GetFrame
    /\ thr.pc = "dir_fetch"
    /\ thr' = [thr EXCEPT !.pc = "dir", !.dir_guard = thr.dir_page_id_, !.read = NullPage]
    /\ UNCHANGED htable

\* Lines 75-81.
GetValueDir ==
    /\ GetFrame
    /\ thr.pc = "dir"
    /\ \E dir \in {htable.dirs[thr.dir_page_id_]} :
           thr' = [thr EXCEPT !.read = thr.dir_page_id_,
                              !.buc_page_id_ =
                                  dir.bucket_page_ids_[HashToBucketIndex(dir, Hash(thr.key))],
                              !.dir_guard = NullPage,
                              !.pc = "buc_fetch"]
    /\ UNCHANGED htable

\* Lines 83-85; a page id that names no page ends the call in the pool.
GetValueBucFetch ==
    /\ GetFrame
    /\ thr.pc = "buc_fetch"
    /\ IF thr.buc_page_id_ \in DOMAIN htable.buckets
       THEN /\ thr' = [thr EXCEPT !.pc = "buc", !.buc_guard = thr.buc_page_id_,
                                  !.read = NullPage]
            /\ UNCHANGED htable
       ELSE /\ htable' = [htable EXCEPT !.crashed = TRUE]
            /\ UNCHANGED thr

\* Lines 87-88.
GetValueBucDrop ==
    /\ GetFrame
    /\ thr.pc = "buc"
    /\ thr' = [thr EXCEPT !.pc = "lookup", !.buc_guard = NullPage, !.read = NullPage,
                          !.dropped = htable.buckets[thr.buc_page_id_]]
    /\ UNCHANGED htable

\* Lines 89-92.
GetValueLookup ==
    \E uninit \in {0} \cup HValues :
        /\ GetFrame
        /\ thr.pc = "lookup"
        /\ \E found \in {Lookup(htable.buckets[thr.buc_page_id_], thr.key)} :
               thr' = [thr EXCEPT !.pc = "idle", !.read = thr.buc_page_id_,
                                  !.op = "GetValue", !.ok = found,
                                  !.result = IF found THEN <<uninit>> ELSE <<>>]
        /\ UNCHANGED htable

\* The other thread's Insert, when the bucket has room.
WriterInsert ==
    \E key \in Keys, value \in HValues :
        /\ GetFrame
        /\ HeldGuards(thr) = {}
        /\ htable.pc = "idle"
        /\ \E entered \in {InsertEnter([htable EXCEPT !.value = value], key)} :
              IF entered.pc = "idle"
              THEN htable' = Noted(entered)
              ELSE /\ entered.buc_page_id_ \in DOMAIN entered.buckets
                   /\ ~IsFull(entered.buckets[entered.buc_page_id_])
                   /\ htable' = Noted(InsertRound(entered))
        /\ thr' = [thr EXCEPT !.read = NullPage]

\* The other thread's Remove.
WriterRemove ==
    \E key \in Keys :
        /\ GetFrame
        /\ HeldGuards(thr) = {}
        /\ htable.pc = "idle"
        /\ htable' = Noted(HTable_Remove(htable, key))
        /\ thr' = [thr EXCEPT !.read = NullPage]

NextGet ==
    \/ GetValueCall
    \/ GetValueHeader
    \/ GetValueDirFetch
    \/ GetValueDir
    \/ GetValueBucFetch
    \/ GetValueBucDrop
    \/ GetValueLookup
    \/ WriterInsert
    \/ WriterRemove

SpecGet == InitGet /\ [][NextGet]_vars

(***************************************************************************)
(* The table over a pool that runs out of frames (SpecPool).  Each Insert  *)
(* is called with htable.frames pages left for NewPageGuarded to hand out. *)
(* Insert is called when it ends: with a new directory or bucket, or on a  *)
(* bucket with room.  A call that fetches a page id that names no page     *)
(* ends in the pool (htable.crashed).                                      *)
(***************************************************************************)
MaxFrames == 2       \* NewPageGuarded calls of one Insert that find a frame: 0 .. MaxFrames

PoolInsert ==
    \E key \in Keys, value \in HValues, frames \in 0 .. MaxFrames :
        /\ HashFrame
        /\ htable.pc = "idle"
        /\ \E entered \in {InsertEnter([htable EXCEPT !.value = value, !.frames = frames,
                                                      !.no_frame = FALSE], key)} :
              IF entered.pc = "idle"
              THEN htable' = Noted(entered)
              ELSE IF entered.buc_page_id_ \notin DOMAIN entered.buckets
              THEN htable' = [entered EXCEPT !.pc = "idle", !.op = "Insert",
                                             !.crashed = TRUE]
              ELSE /\ ~IsFull(entered.buckets[entered.buc_page_id_])
                   /\ htable' = Noted(InsertRound(entered))

PoolGetValue ==
    \E key \in Keys, uninit \in {0} \cup HValues :
        /\ HashFrame
        /\ htable.pc = "idle"
        /\ htable' = HTable_GetValue(htable, key, uninit)

NextPool ==
    \/ PoolInsert
    \/ PoolGetValue

SpecPool == InitHash /\ [][NextPool]_vars

(***************************************************************************)
(* The copy-on-write trie (SpecTrie): a caller starts from Trie() and      *)
(* keeps the trie each Put or Remove returns.  trie.root_ is the caller's  *)
(* trie as a tree of nodes [children_, is_value_node_, value_]; a call     *)
(* runs on a heap of objects, where the nodes of the caller's trie are the *)
(* objects named by their path and every Clone and make_shared is a new    *)
(* object, so that a write to a copy and a write to the node are different *)
(* writes.  The other fields of trie describe the last call; fault is set  *)
(* when a call went through a null child pointer and did not return.       *)
(***************************************************************************)
Chars == {"a", "b"}

TrieKeys == UNION {[1 .. n -> Chars] : n \in 1 .. MaxKeyLen}

TrieValues == 1 .. MaxValue

NoValue == 0

NoChildren == [c \in {} |-> NoValue]

\* TrieNode and TrieNodeWithValue<T> of trie.h.
TrieNode(children) ==
    [children_ |-> children, is_value_node_ |-> FALSE, value_ |-> NoValue]

TrieNodeWithValue(children, value) ==
    [children_ |-> children, is_value_node_ |-> TRUE, value_ |-> value]

\* A null entry of a children_ map, in the tree and on the heap.
NullNode == [null |-> TRUE]

Nullptr == [gen |-> -1, path |-> <<>>]

\* The object of the caller's trie at a path, and the n-th object a call makes.
OldObject(path) == [gen |-> 0, path |-> path]

NewObject(n) == [gen |-> n, path |-> <<>>]

RECURSIVE NodeAt(_, _)
NodeAt(root, path) ==
    IF path = <<>> THEN root ELSE NodeAt(root.children_[Head(path)], Tail(path))

RECURSIVE Paths(_)
Paths(node) ==
    {<<>>} \cup UNION {{<<c>> \o p : p \in Paths(node.children_[c])} :
                          c \in {d \in DOMAIN node.children_ : node.children_[d] # NullNode}}

\* The heap a call starts on: the caller's trie, one object per node.
Load(root) ==
    [obj |-> [id \in {OldObject(p) : p \in Paths(root)} |->
                 LET node == NodeAt(root, id.path)
                 IN  [node EXCEPT !.children_ =
                         [c \in DOMAIN @ |-> IF @[c] = NullNode THEN Nullptr
                                             ELSE OldObject(Append(id.path, c))]]],
     next |-> 1]

\* The tree below an object.
RECURSIVE Unload(_, _)
Unload(h, ptr) ==
    [h.obj[ptr] EXCEPT !.children_ =
        [c \in DOMAIN @ |-> IF @[c] = Nullptr THEN NullNode ELSE Unload(h, @[c])]]

\* make_shared, and the shared_ptr made of a Clone(): a new object.
MakeShared(h, node) ==
    [h |-> [obj |-> (NewObject(h.next) :> node) @@ h.obj, next |-> h.next + 1],
     ptr |-> NewObject(h.next)]

\* TrieNode::Clone of trie.h: a new node with the same children and value.
Clone(h, ptr) == MakeShared(h, h.obj[ptr])

\* node->children_[c] = child.
SetChild(h, node, c, child) ==
    [h EXCEPT !.obj[node].children_ = (c :> child) @@ @]

\* GetOne handing out the child itself.
GetOne_NoCopy(h, node, c) ==
    IF c \in DOMAIN h.obj[node].children_
    THEN [h |-> h, ptr |-> h.obj[node].children_[c],
          fault |-> h.obj[node].children_[c] = Nullptr]
    ELSE [h |-> h, ptr |-> Nullptr, fault |-> FALSE]

\* Trie::GetOne: a copy of the child, not the child; a null entry is found
\* by find and then dereferenced.
GetOne(h, node, c) ==
    IF c \in DOMAIN h.obj[node].children_
    THEN IF h.obj[node].children_[c] = Nullptr
         THEN [h |-> h, ptr |-> Nullptr, fault |-> TRUE]
         ELSE [fault |-> FALSE] @@ Clone(h, h.obj[node].children_[c])
    ELSE [h |-> h, ptr |-> Nullptr, fault |-> FALSE]

RECURSIVE GetWalk(_, _, _, _)
GetWalk(h, curr, key, i) ==
    IF i <= Len(key)
    THEN LET one == GetOne(h, curr, key[i])
         IN  IF one.fault THEN [value |-> NoValue, fault |-> TRUE]
             ELSE IF one.ptr = Nullptr THEN [value |-> NoValue, fault |-> FALSE]
             ELSE GetWalk(one.h, one.ptr, key, i + 1)
    ELSE [value |-> IF h.obj[curr].is_value_node_ THEN h.obj[curr].value_ ELSE NoValue,
          fault |-> FALSE]

\* Trie::Get; NoValue stands for the nullptr it returns.
Get(h, root, key) ==
    LET curr == Clone(h, root) IN GetWalk(curr.h, curr.ptr, key, 1)

\* One round of the loop of Put.
PutStep(walk, c) ==
    LET parent == walk.curr
        one == GetOne(walk.h, parent, c)
    IN  IF walk.fault \/ one.fault THEN [walk EXCEPT !.fault = TRUE]
        ELSE IF one.ptr = Nullptr
        THEN LET made == MakeShared(one.h, TrieNode(NoChildren))
             IN  [h |-> SetChild(made.h, parent, c, made.ptr),
                  parent |-> parent, curr |-> made.ptr, fault |-> FALSE]
        ELSE LET temp_ == Clone(one.h, one.ptr)
             IN  [h |-> SetChild(temp_.h, parent, c, temp_.ptr),
                  parent |-> parent, curr |-> one.ptr, fault |-> FALSE]

RECURSIVE PutWalk(_, _, _)
PutWalk(walk, key, i) ==
    IF i <= Len(key) THEN PutWalk(PutStep(walk, key[i]), key, i + 1) ELSE walk

\* Trie::Put for a key that is not empty: the heap after the call and the
\* root of the trie returned.
Put(h, root, key, value) ==
    LET newroot == Clone(h, root)
        walk == PutWalk([h |-> newroot.h, parent |-> Nullptr, curr |-> newroot.ptr,
                         fault |-> FALSE], key, 1)
    IN  IF walk.fault THEN [h |-> walk.h, root |-> root, fault |-> TRUE]
        ELSE LET newcurr == MakeShared(walk.h,
                                TrieNodeWithValue(walk.h.obj[walk.curr].children_, value))
             IN  [h |-> SetChild(newcurr.h, walk.parent, key[Len(key)], newcurr.ptr),
                  root |-> newroot.ptr, fault |-> FALSE]

\* One round of the loop of Remove; found is false once the key is known
\* to be absent.
RemoveStep(walk, c) ==
    LET parent == walk.curr
        one == GetOne(walk.h, parent, c)
    IN  IF walk.fault \/ ~walk.found THEN walk
        ELSE IF one.fault THEN [walk EXCEPT !.fault = TRUE]
        ELSE IF one.ptr = Nullptr THEN [walk EXCEPT !.found = FALSE]
        ELSE LET temp_ == Clone(one.h, one.ptr)
             IN  [h |-> SetChild(temp_.h, parent, c, temp_.ptr),
                  parent |-> parent, curr |-> one.ptr, fault |-> FALSE, found |-> TRUE]

RECURSIVE RemoveWalk(_, _, _)
RemoveWalk(walk, key, i) ==
    IF i <= Len(key) THEN RemoveWalk(RemoveStep(walk, key[i]), key, i + 1) ELSE walk

\* Trie::Remove for a key that is not empty.
Trie_Remove(h, root, key) ==
    LET newroot == Clone(h, root)
        walk == RemoveWalk([h |-> newroot.h, parent |-> Nullptr, curr |-> newroot.ptr,
                            fault |-> FALSE, found |-> TRUE], key, 1)
    IN  IF walk.fault THEN [h |-> walk.h, root |-> root, fault |-> TRUE]
        ELSE IF ~walk.found THEN [h |-> walk.h, root |-> root, fault |-> FALSE]
        ELSE LET newchild == MakeShared(walk.h, TrieNode(walk.h.obj[walk.curr].children_))
             IN  [h |-> SetChild(newchild.h, walk.parent, key[Len(key)],
                                 IF DOMAIN newchild.h.obj[newchild.ptr].children_ # {}
                                 THEN newchild.ptr ELSE Nullptr),
                  root |-> newroot.ptr, fault |-> FALSE]

TrieState(called, op, key, value) ==
    [root_ |-> Unload(called.h, called.root), fault |-> called.fault,
     op |-> op, key |-> key, value |-> value]

\* Trie(): a root without children.
InitTrie ==
    /\ BpmUnused
    /\ lruk = Unused
    /\ guards = Unused
    /\ htable = Unused
    /\ bucket = Unused
    /\ trie = [root_ |-> TrieNode(NoChildren), fault |-> FALSE,
               op |-> "none", key |-> <<>>, value |-> NoValue]

TriePut ==
    \E key \in TrieKeys, value \in TrieValues :
        /\ ~trie.fault
        /\ trie' = TrieState(Put(Load(trie.root_), OldObject(<<>>), key, value),
                             "Put", key, value)
        /\ UNCHANGED <<bpmVars, lruk, guards, htable, bucket>>

TrieRemove ==
    \E key \in TrieKeys :
        /\ ~trie.fault
        /\ trie' = TrieState(Trie_Remove(Load(trie.root_), OldObject(<<>>), key),
                             "Remove", key, NoValue)
        /\ UNCHANGED <<bpmVars, lruk, guards, htable, bucket>>

NextTrie == TriePut \/ TrieRemove

SpecTrie == InitTrie /\ [][NextTrie]_vars

(***************************************************************************)
(* Shorthands for the claims.                                              *)
(***************************************************************************)
PinCount(w, page_id) == w.pages_[w.page_table_[page_id]].pin_count_

IsDirty(w, page_id) == w.pages_[w.page_table_[page_id]].is_dirty_

\* The step just taken was a NewPage, or a FetchPage of a page not resident.
IsLoad == \/ last'.op = "NewPage"
          \/ last'.op = "FetchPage" /\ ~Resident(bpm, last'.page_id)

\* Free list empty and every resident page pinned.
OutOfFrames(w) ==
    /\ Len(w.free_list_) = 0
    /\ \A page_id \in DOMAIN w.page_table_ : PinCount(w, page_id) > 0

(***************************************************************************)
(* C1.  A frame whose page has pin_count > 0 is not marked evictable in    *)
(* the replacer, and no NewPage or FetchPage takes a frame that holds a    *)
(* pinned page as its eviction victim.                                     *)
(***************************************************************************)
C1_PinnedNeverEvictable ==
    /\ \A f \in Frames :
          bpm.pages_[f].pin_count_ > 0 => ~IsEvictable(bpm.replacer_, f)
    /\ last.how = "evict" => last.victim_pin = 0

(***************************************************************************)
(* C2.  The page table holds at most pool_size page ids, no two page ids   *)
(* map to the same frame, and every mapped frame holds exactly the page id *)
(* that maps to it.                                                        *)
(***************************************************************************)
C2_PageTableBijection ==
    LET pt == bpm.page_table_
    IN  /\ Cardinality(DOMAIN pt) <= bpm.pool_size_
        /\ \A p, q \in DOMAIN pt : pt[p] = pt[q] => p = q
        /\ \A p \in DOMAIN pt : bpm.pages_[pt[p]].page_id_ = p

\* A call has just evicted a page and the page table is full again.
C2_Witness ==
    /\ last.how = "evict"
    /\ last.ok
    /\ Cardinality(DOMAIN bpm.page_table_) = bpm.pool_size_

(***************************************************************************)
(* C3.  A page whose bytes were written while pinned, then unpinned, then  *)
(* evicted by a NewPage or FetchPage that reuses its frame, comes back     *)
(* from FetchPage with the written bytes.                                  *)
(***************************************************************************)
C3_RoundTrip == rt.stage = "fetched" => rt.got = rt.val

(***************************************************************************)
(* C4.  UnpinPage returns false and changes nothing when the page is not   *)
(* resident or its pin count is 0; otherwise it returns true, decrements   *)
(* the pin count by one, and marks the frame evictable in the replacer     *)
(* exactly when the pin count becomes 0.                                   *)
(***************************************************************************)
C4_UnpinStep ==
    last'.op = "UnpinPage" =>
        LET page_id == last'.page_id
        IN  IF ~Resident(bpm, page_id) \/ PinCount(bpm, page_id) = 0
            THEN ~last'.ok /\ bpm' = bpm
            ELSE LET f == bpm.page_table_[page_id]
                     pins == bpm'.pages_[f].pin_count_
                 IN  /\ last'.ok
                     /\ pins = PinCount(bpm, page_id) - 1
                     /\ pins = 0 => IsEvictable(bpm'.replacer_, f)
                     /\ pins # 0 => bpm'.replacer_ = bpm.replacer_

C4_Unpin == [][C4_UnpinStep]_vars

(***************************************************************************)
(* C5.  UnpinPage ORs the dirty flag: a page that is dirty before a        *)
(* successful UnpinPage(page_id, false) is dirty after it; only a flush    *)
(* clears the dirty flag of a resident page.                               *)
(***************************************************************************)
C5_DirtyStep ==
    \A page_id \in DOMAIN bpm.page_table_ :
        (/\ Resident(bpm', page_id)
         /\ bpm'.page_table_[page_id] = bpm.page_table_[page_id]
         /\ IsDirty(bpm, page_id)
         /\ ~IsDirty(bpm', page_id))
        => last'.op \in {"FlushPage", "FlushAllPages"}

C5_DirtySticky == [][C5_DirtyStep]_vars

(***************************************************************************)
(* C6.  DeletePage on a resident page returns false and changes nothing    *)
(* if the page is pinned; if it is unpinned, then afterwards the page id   *)
(* is not in the page table, its frame is not tracked by the replacer and  *)
(* the frame is on the free list.                                          *)
(***************************************************************************)
InList(list, x) == \E i \in 1 .. Len(list) : list[i] = x

C6_DeleteStep ==
    (last'.op = "DeletePage" /\ Resident(bpm, last'.page_id) /\ Alive(bpm')) =>
        LET page_id == last'.page_id
            f == bpm.page_table_[page_id]
        IN  IF PinCount(bpm, page_id) > 0
            THEN ~last'.ok /\ bpm' = bpm
            ELSE /\ ~Resident(bpm', page_id)
                 /\ f \notin Tracked(bpm'.replacer_)
                 /\ InList(bpm'.free_list_, f)

C6_Delete == [][C6_DeleteStep]_vars

(***************************************************************************)
(* C7.  UnpinPage, FlushPage and DeletePage called with a page id that is  *)
(* not in the page table each return false and leave the pool unchanged.   *)
(* As amended: UnpinPage and FlushPage return false, DeletePage returns    *)
(* true, and all three leave the pool unchanged.                           *)
(***************************************************************************)
NotResidentCall ==
    /\ last'.op \in {"UnpinPage", "FlushPage", "DeletePage"}
    /\ ~Resident(bpm, last'.page_id)

C7_OriginalStep == NotResidentCall => (~last'.ok /\ bpm' = bpm)

C7_Original == [][C7_OriginalStep]_vars

C7_AmendedStep ==
    NotResidentCall => (/\ last'.ok = (last'.op = "DeletePage")
                        /\ bpm' = bpm)

C7_NotResident == [][C7_AmendedStep]_vars

\* DeletePage has returned true for a page id that is not in the page table,
\* while other pages are resident.
C7_Witness ==
    /\ last.op = "DeletePage"
    /\ ~Resident(bpm, last.page_id)
    /\ last.ok
    /\ DOMAIN bpm.page_table_ # {}

(***************************************************************************)
(* C8.  With the free list empty and every resident page pinned, NewPage   *)
(* and FetchPage of a non-resident page return null and leave the page     *)
(* table, the pin counts, the free list, the replacer and the next page id *)
(* unchanged.                                                              *)
(***************************************************************************)
C8_OutOfFramesStep ==
    (IsLoad /\ OutOfFrames(bpm)) =>
        /\ last'.page = NullPage
        /\ bpm'.page_table_ = bpm.page_table_
        /\ \A f \in Frames : bpm'.pages_[f].pin_count_ = bpm.pages_[f].pin_count_
        /\ bpm'.free_list_ = bpm.free_list_
        /\ bpm'.replacer_ = bpm.replacer_
        /\ bpm'.next_page_id_ = bpm.next_page_id_

C8_OutOfFrames == [][C8_OutOfFramesStep]_vars

(***************************************************************************)
(* C9.  NewPage and FetchPage take a frame from the free list whenever it  *)
(* is non-empty; Evict is called, and a resident page loses its frame,     *)
(* only when the free list is empty.                                       *)
(***************************************************************************)
C9_FreeListFirstStep ==
    IsLoad =>
        /\ Len(bpm.free_list_) > 0 =>
              (last'.how = "free" /\ last'.page = Head(bpm.free_list_))
        /\ (\/ last'.how = "evict"
            \/ \E page_id \in DOMAIN bpm.page_table_ : ~Resident(bpm', page_id))
           => Len(bpm.free_list_) = 0

C9_FreeListFirst == [][C9_FreeListFirstStep]_vars

(***************************************************************************)
(* C10.  Two FetchPage calls for the same page id issued by two threads,   *)
(* in any interleaving and whether or not the page was resident before,    *)
(* return the same frame when both succeed.                                *)
(***************************************************************************)
C10_SameFrame ==
    (/\ phase = "conc"
     /\ \A t \in Threads : thr[t].pc = "done" /\ thr[t].ret # NullPage)
    => \A t, u \in Threads : thr[t].ret = thr[u].ret

(***************************************************************************)
(* C12.  A successful Evict returns the evictable frame with the largest   *)
(* backward-K distance: an evictable frame with fewer than k recorded      *)
(* accesses whose earliest access is oldest if there is one, otherwise the *)
(* evictable frame whose k-th most recent access is oldest.                *)
(***************************************************************************)
Evictables(r) == {f \in Tracked(r) : r.node_store_[f].is_evictable}

\* history is newest first: its last entry is the oldest access kept, which
\* is the earliest access of a frame with fewer than k accesses and the
\* k-th most recent access of a frame with k or more.
OldestKept(r, f) == r.node_store_[f].history[Len(r.node_store_[f].history)]

LargestBackwardK(r) ==
    LET inf == {f \in Evictables(r) : Len(r.node_store_[f].history) < r.k_}
        pool == IF inf # {} THEN inf ELSE Evictables(r)
    IN  CHOOSE f \in pool : \A g \in pool : OldestKept(r, f) <= OldestKept(r, g)

C12_EvictStep ==
    (lruk'.op = "Evict" /\ lruk'.ok) => lruk'.ret = LargestBackwardK(lruk.r)

C12_EvictLargestBackwardK == [][C12_EvictStep]_vars

(***************************************************************************)
(* C13.  After any sequence of RecordAccess, SetEvictable, Evict and       *)
(* Remove calls, Size() equals the number of tracked frames whose          *)
(* evictable flag is true.                                                 *)
(***************************************************************************)
C13_SizeCountsEvictable == Size(lruk.r) = Cardinality(Evictables(lruk.r))

\* An Evict has succeeded and left both an evictable and a non-evictable frame.
C13_Witness ==
    /\ lruk.op = "Evict"
    /\ lruk.ok
    /\ Evictables(lruk.r) # {}
    /\ Tracked(lruk.r) \ Evictables(lruk.r) # {}

(***************************************************************************)
(* C14.  Evict returns none exactly when no tracked frame is evictable,    *)
(* and then leaves the tracked frames, their histories, their order and    *)
(* Size() unchanged.                                                       *)
(***************************************************************************)
C14_EvictNoneStep ==
    lruk'.op = "Evict" =>
        /\ ~lruk'.ok <=> Evictables(lruk.r) = {}
        /\ ~lruk'.ok =>
              /\ lruk'.r.node_store_ = lruk.r.node_store_
              /\ lruk'.r.listRecentKth_ = lruk.r.listRecentKth_
              /\ Size(lruk'.r) = Size(lruk.r)

C14_EvictNone == [][C14_EvictNoneStep]_vars

\* Evict has returned none on a replacer that tracks frames, none evictable.
C14_Witness ==
    /\ lruk.op = "Evict"
    /\ ~lruk.ok
    /\ Tracked(lruk.r) # {}

(***************************************************************************)
(* C11.  Over any sequence of guard creations, upgrades, move              *)
(* constructions, move assignments, Drops and destructions, every pin      *)
(* taken for a guard is released by exactly one UnpinPage call: a pin that *)
(* some guard still stands for has had no UnpinPage call, a pin that no    *)
(* guard stands for any more has had exactly one.  A Drop or a destruction *)
(* of a guard that is empty makes no UnpinPage call.                       *)
(***************************************************************************)
PinHeld(s, n) == \E g \in DOMAIN s.slot : s.slot[g].page_ # NullPage /\ s.slot[g].pin = n

C11_PinsReleasedOnce ==
    \A n \in 1 .. guards.s.taken :
        guards.s.unpins[n] = IF PinHeld(guards.s, n) THEN 0 ELSE 1

C11_EmptyStep ==
    (guards'.op \in {"Drop", "Dtor"} /\ guards.s.slot[guards'.this].page_ = NullPage)
        => guards'.s.unpins = guards.s.unpins

C11_EmptyReleasesNothing == [][C11_EmptyStep]_vars

(***************************************************************************)
(* C15.  Every hash-table Insert terminates, and an Insert whose target    *)
(* bucket is full and cannot be split, its local depth being               *)
(* directory_max_depth, returns false.                                     *)
(***************************************************************************)
C15_InsertTerminates == (htable.pc = "loop") ~> (htable.pc = "idle")

(***************************************************************************)
(* C16.  In every state during and after Insert and Remove, every live     *)
(* slot of a directory has local_depths[i] <= global_depth, and            *)
(* global_depth <= directory_max_depth.                                    *)
(***************************************************************************)
LiveSlots(dir) == 0 .. (Dir_Size(dir) - 1)

C16_DepthsBounded ==
    \A id \in DOMAIN htable.dirs :
        LET dir == htable.dirs[id]
        IN  /\ dir.global_depth_ <= DirectoryMaxDepth
            /\ \A i \in LiveSlots(dir) : dir.local_depths_[i] <= dir.global_depth_

(***************************************************************************)
(* C17.  After every Insert and Remove, two live slots of a directory hold *)
(* the same bucket page id exactly when they agree on their low            *)
(* local_depth bits, and each bucket is referenced by exactly              *)
(* 2^(global_depth - local_depth) slots.                                   *)
(***************************************************************************)
SameLowBits(dir, i, j) ==
    /\ dir.local_depths_[i] = dir.local_depths_[j]
    /\ i % Pow2(dir.local_depths_[i]) = j % Pow2(dir.local_depths_[i])

Entries(b) == {i \in DOMAIN b.array_ : i < b.size_}

C18_SortedAndExact ==
    ~bucket.crashed =>
        /\ ~Wrapped(bucket.b)
        /\ \A i, j \in Entries(bucket.b) :
               i < j => cmp(bucket.b.array_[i], bucket.b.array_[j]) = -1
        /\ {bucket.b.array_[i] : i \in Entries(bucket.b)} = bucket.keys

(***************************************************************************)
(* C19.  Insert returns false, leaving the bucket unchanged, exactly when  *)
(* the bucket is full or the key is already present; otherwise, the first  *)
(* insert of the all-zero key into a freshly zeroed bucket included, it    *)
(* returns true and Size() grows by one.  Remove returns false exactly     *)
(* when the key is absent.                                                 *)
(***************************************************************************)
Present(b, key) == \E i \in Entries(b) : b.array_[i] = key

C19_ReturnStep ==
    /\ (bucket'.op = "Insert" /\ ~bucket'.crashed) =>
           /\ ~bucket'.ok <=> (IsFull(bucket.b) \/ Present(bucket.b, bucket'.key))
           /\ ~bucket'.ok => bucket'.b = bucket.b
           /\ bucket'.ok => Bucket_Size(bucket'.b) = Bucket_Size(bucket.b) + 1
    /\ (bucket'.op = "Remove" /\ ~bucket'.crashed) =>
           (~bucket'.ok <=> ~Present(bucket.b, bucket'.key))

C19_Returns == [][C19_ReturnStep]_vars

(***************************************************************************)
(* C20.  For every trie t, key k that is not empty and value v,            *)
(* t.Put(k, v).Get(k) = v; so after t1 = Trie().Put("ab", 1) and           *)
(* t2 = t1.Put("ad", 2), t2.Get("ab") = 1 and t2.Get("ad") = 2.            *)
(***************************************************************************)
C20_PutGetStep ==
    (trie'.op = "Put" /\ ~trie'.fault) =>
        Get(Load(trie'.root_), OldObject(<<>>), trie'.key) = [value |-> trie'.value, fault |-> FALSE]

C20_PutThenGet == [][C20_PutGetStep]_vars

(***************************************************************************)
(* C21.  For every trie t, key k and value v, t.Put(k, v).Remove(k).Get(k) *)
(* returns none and does not fail, for keys of one character and for       *)
(* longer keys.                                                            *)
(***************************************************************************)
C21_PutRemoveGetStep ==
    (trie.op = "Put" /\ trie'.op = "Remove" /\ trie'.key = trie.key) =>
        /\ ~trie'.fault
        /\ Get(Load(trie'.root_), OldObject(<<>>), trie'.key) =
               [value |-> NoValue, fault |-> FALSE]

C21_PutRemoveGet == [][C21_PutRemoveGetStep]_vars

(***************************************************************************)
(* C22.  Put and Remove are copy-on-write: when t.Put(k, v) or t.Remove(k) *)
(* has returned a trie, t is unchanged (every node of t is as it was and   *)
(* t.Get returns for every key what it returned before), and every node of *)
(* t that is not on the path of k is the same object in the trie returned. *)
(***************************************************************************)
IsPrefix(path, key) ==
    Len(path) <= Len(key) /\ SubSeq(key, 1, Len(path)) = path

\* The object a path leads to from ptr; Nullptr if there is none.
RECURSIVE ObjectAt(_, _, _)
ObjectAt(h, ptr, path) ==
    IF path = <<>> \/ ptr = Nullptr THEN ptr
    ELSE IF Head(path) \in DOMAIN h.obj[ptr].children_
    THEN ObjectAt(h, h.obj[ptr].children_[Head(path)], Tail(path))
    ELSE Nullptr

\* The call of the step, run again on the heap of the trie before it.
Called ==
    IF trie'.op = "Put"
    THEN Put(Load(trie.root_), OldObject(<<>>), trie'.key, trie'.value)
    ELSE Trie_Remove(Load(trie.root_), OldObject(<<>>), trie'.key)

C22_CopyOnWriteStep ==
    (trie'.op \in {"Put", "Remove"} /\ ~trie'.fault) =>
        LET before == Load(trie.root_)
            called == Called
        IN  /\ \A id \in DOMAIN before.obj : called.h.obj[id] = before.obj[id]
            /\ \A key \in TrieKeys :
                   Get(called.h, OldObject(<<>>), key) = Get(before, OldObject(<<>>), key)
            /\ \A path \in Paths(trie.root_) :
                   ~IsPrefix(path, trie'.key) =>
                       ObjectAt(called.h, called.root, path) = OldObject(path)

C22_CopyOnWrite == [][C22_CopyOnWriteStep]_vars

\* A Put or Remove of a key below "a" has returned a trie that holds a
\* two-character key below "b".
C22_Witness ==
    /\ trie.op \in {"Put", "Remove"}
    /\ ~trie.fault
    /\ trie.key[1] = "a"
    /\ \E path \in Paths(trie.root_) : Len(path) = 2 /\ path[1] = "b"
(***************************************************************************)
(* C23.  After any sequence of replacer operations, successive Evict calls *)
(* with all frames evictable return first every frame with fewer than k    *)
(* accesses, in order of first access, and only then the frames with k or  *)
(* more accesses: no frame that has reached its k-th access precedes a     *)
(* frame that has not.                                                     *)
(***************************************************************************)
RECURSIVE AllEvictable(_, _)
AllEvictable(r, frames) ==
    IF frames = {} THEN r
    ELSE LET f == CHOOSE x \in frames : TRUE
         IN  AllEvictable(SetEvictable(r, f, TRUE), frames \ {f})

\* The frames successive Evict calls return, until Evict returns none.
RECURSIVE EvictionOrder(_)
EvictionOrder(r) ==
    LET evicted == Evict(r)
    IN  IF evicted.ok THEN <<evicted.frame>> \o EvictionOrder(evicted.r) ELSE <<>>

FewerThanK(r, f) == Len(r.node_store_[f].history) < r.k_

C23_InfGroupFirst ==
    ~lruk.r.aborted =>
        LET order == EvictionOrder(AllEvictable(lruk.r, Tracked(lruk.r)))
        IN  \A i, j \in 1 .. Len(order) :
                i < j =>
                    /\ FewerThanK(lruk.r, order[j]) => FewerThanK(lruk.r, order[i])
                    /\ (FewerThanK(lruk.r, order[i]) /\ FewerThanK(lruk.r, order[j])) =>
                           OldestKept(lruk.r, order[i]) < OldestKept(lruk.r, order[j])

(***************************************************************************)
(* C24.  Every read or write of the buffer pool's page table and free list *)
(* happens while the calling thread holds latch_: a step of a thread that  *)
(* changes the page table or the free list is a step of the thread that    *)
(* holds latch_.                                                           *)
(***************************************************************************)
C24_TableStep ==
    \A t \in Threads :
        (/\ phase = "conc"
         /\ thr'[t] # thr[t]
         /\ \/ bpm'.page_table_ # bpm.page_table_
            \/ bpm'.free_list_ # bpm.free_list_)
        => latch_ = t

C24_TableUnderLatch == [][C24_TableStep]_vars

(***************************************************************************)
(* C25.  Buffer-pool operations take locks in the order latch_, then frame *)
(* latch: no thread holds latch_ together with a frame latch it took       *)
(* before, and no thread holds latch_ while it waits for a disk request.   *)
(***************************************************************************)
HoldsFrameLatch(t) == \E f \in Frames : frame_latch_[f] = t

WaitsForDisk(t) == thr[t].pc \in {"read", "flush_wait"}

C25_LockOrder ==
    phase = "conc" =>
        \A t \in Threads :
            latch_ = t => (~HoldsFrameLatch(t) /\ ~WaitsForDisk(t))

(***************************************************************************)
(* C28.  Under any interleaving of the calls of several threads, the pin   *)
(* count of a resident page is the number of successful NewPage and        *)
(* FetchPage calls that returned it minus the number of successful         *)
(* UnpinPage calls on it; two threads that fetch the same page at the same *)
(* time raise its pin count by two, from 0 when the page was not resident. *)
(***************************************************************************)
Fetched == {t \in Threads : thr[t].pc = "done" /\ thr[t].ret # NullPage}

C28_PinCountsFetches ==
    (/\ phase = "conc"
     /\ Alive(bpm)
     /\ \A t \in Threads : thr[t].pc = "done"
     /\ Fetched # {})
    => \E page_id \in {thr[0].page_id} :
          /\ Resident(bpm, page_id)
          /\ PinCount(bpm, page_id) = thr[0].pin0 + Cardinality(Fetched)

(***************************************************************************)
(* C29.  After Insert(key, value) has returned true, and with no later     *)
(* Remove of that key, GetValue(key) returns true and appends exactly the  *)
(* inserted value to the result.                                           *)
(***************************************************************************)
C29_GetValueStep ==
    (htable'.op = "GetValue" /\ htable'.pc = "idle" /\ ~htable'.crashed
     /\ htable'.key \in htable.undisturbed)
    => /\ htable'.ok
       /\ htable'.result = <<htable.inserted[htable'.key]>>

C29_GetValueAfterInsert == [][C29_GetValueStep]_vars

(***************************************************************************)
(* C30.  After any sequence of Insert and Remove calls, GetValue(key)      *)
(* returns true only if some earlier Insert(key, _) returned true and no   *)
(* later Remove(key) returned true; so GetValue(key) is false right after  *)
(* a successful Remove(key), also for the all-zero key and for a bucket    *)
(* that was emptied.                                                       *)
(***************************************************************************)
C30_GetValueStep ==
    (htable'.op = "GetValue" /\ htable'.pc = "idle" /\ ~htable'.crashed /\ htable'.ok)
    => htable'.key \in DOMAIN htable.inserted

C30_GetValueOnlyInserted == [][C30_GetValueStep]_vars

(***************************************************************************)
(* C26.  For every live directory slot i with local depth at least 1 (and  *)
(* at most the global depth), GetSplitImageIndex(i) is                     *)
(* i XOR (1 << (local depth of i - 1)), which is again a live slot index,  *)
(* less than 2^global_depth.                                               *)
(***************************************************************************)
C26_SplitImage ==
    \A dir_page_id \in DOMAIN htable.dirs :
        \E dir \in {htable.dirs[dir_page_id]} :
            \A i \in 0 .. (Dir_Size(dir) - 1) :
                (dir.local_depths_[i] >= 1 /\ dir.local_depths_[i] <= dir.global_depth_)
                => /\ GetSplitImageIndex(dir, i) = FlipBit(i, dir.local_depths_[i] - 1)
                   /\ GetSplitImageIndex(dir, i) < Dir_Size(dir)

(***************************************************************************)
(* C27.  Splitting a full bucket at local depth d allocates exactly one    *)
(* new bucket page and partitions the old entries by hash bit (1 << d):    *)
(* afterwards the entries with that bit clear are the entries of the old   *)
(* bucket, the entries with it set are the entries of the new one, and no  *)
(* entry is lost or duplicated.                                            *)
(***************************************************************************)
EntryKeys(b) == {b.array_[i] : i \in Entries(b)}

C27_SplitStep ==
    htable'.op = "IncrLocalDepth" =>
        \E old_page_id \in {htable'.buc_page_id_}, new_page_id \in {htable.next_page_id_},
           d \in {htable.dirs[htable'.dir_page_id_].local_depths_[htable'.buc_ind]} :
            /\ htable'.next_page_id_ = htable.next_page_id_ + 1
            /\ EntryKeys(htable'.buckets[old_page_id]) =
                   {key \in EntryKeys(htable.buckets[old_page_id]) : ~BitSet(Hash(key), d)}
            /\ EntryKeys(htable'.buckets[new_page_id]) =
                   {key \in EntryKeys(htable.buckets[old_page_id]) : BitSet(Hash(key), d)}
            /\ Bucket_Size(htable'.buckets[old_page_id]) + Bucket_Size(htable'.buckets[new_page_id])
                   = Bucket_Size(htable.buckets[old_page_id])

C27_SplitPartitions == [][C27_SplitStep]_vars

(***************************************************************************)
(* C31.  A successful DeletePage(page_id) leaves the bytes, page id, pin   *)
(* count and dirty flag of every other resident page unchanged, whatever   *)
(* frame the deleted page occupied.                                        *)
(***************************************************************************)
C31_DeleteStep ==
    (last'.op = "DeletePage" /\ last'.ok /\ Alive(bpm')) =>
        \A other \in DOMAIN bpm.page_table_ \ {last'.page_id} :
            /\ other \in DOMAIN bpm'.page_table_
            /\ bpm'.page_table_[other] = bpm.page_table_[other]
            /\ bpm'.pages_[bpm.page_table_[other]] = bpm.pages_[bpm.page_table_[other]]

C31_DeleteSparesOthers == [][C31_DeleteStep]_vars

(***************************************************************************)
(* C34.  ReadGuard and WriteGuard hold the page latch only while they hold *)
(* the pin: Drop releases the latch and then the pin, each once, a         *)
(* repeated Drop releases nothing, and the RW latch of a page is never     *)
(* held through a guard while the pin count of that page is 0.             *)
(***************************************************************************)
Latched(s, page) == s.readers[page] > 0 \/ s.writer[page]

C34_Held(s) ==
    \A page \in Frames : Latched(s, page) => s.w.pages_[page].pin_count_ > 0

C34_DropStep ==
    (guards'.op = "Drop" /\ guards.s.slot[guards'.this].kind \in {"read", "write"}) =>
        LET g == guards.s.slot[guards'.this]
        IN  IF g.page_ = NullPage
            THEN /\ guards'.s.readers = guards.s.readers
                 /\ guards'.s.writer = guards.s.writer
                 /\ guards'.s.unpins = guards.s.unpins
                 /\ guards'.s.w = guards.s.w
            ELSE /\ IF g.kind = "read"
                    THEN guards'.s.readers[g.page_] = guards.s.readers[g.page_] - 1
                    ELSE ~guards'.s.writer[g.page_]
                 /\ guards'.s.unpins[g.pin] = guards.s.unpins[g.pin] + 1
                 /\ guards'.s.unpins[g.pin] = 1

C34_LatchWithinPin == [][C34_Held(guards'.s) /\ C34_DropStep]_vars

(***************************************************************************)
(* C32.  GetValue holds at most one pinned page at any moment and reads    *)
(* the contents of the header, directory and bucket page only while it     *)
(* holds the read guard of that page, so that the page it reads is as it   *)
(* was while the guard was held: no writer changed it between the drop of  *)
(* the guard and the read.                                                 *)
(***************************************************************************)
C32_ReadStep ==
    /\ Cardinality(HeldGuards(thr')) <= 1
    /\ thr'.read # NullPage =>
           /\ thr'.read \in HeldGuards(thr)
           /\ thr.pc = "lookup" => htable.buckets[thr.buc_page_id_] = thr.dropped

C32_ReadsUnderGuard == [][C32_ReadStep]_vars

(***************************************************************************)
(* C33.  A hash-table Insert that returns false because the buffer pool    *)
(* has no free or evictable frame leaves the table in a state where every  *)
(* header slot is either empty or names a directory whose hashed bucket    *)
(* slot names an allocated bucket page.                                    *)
(***************************************************************************)
SlotSound(t, key) ==
    LET dir_page_id == t.header.directory_page_ids_[HashToDirectoryIndex(t.header, Hash(key))]
    IN  \/ dir_page_id = NoPage
        \/ /\ dir_page_id \in DOMAIN t.dirs
           /\ t.dirs[dir_page_id].bucket_page_ids_[
                  HashToBucketIndex(t.dirs[dir_page_id], Hash(key))] \in DOMAIN t.buckets

C33_FailStep ==
    (htable'.op = "Insert" /\ htable'.pc = "idle" /\ ~htable'.ok /\ htable'.no_frame
        /\ ~htable'.crashed) =>
        \A key \in Keys : SlotSound(htable', key)

C33_FailedInsertLeavesTable == [][C33_FailStep]_vars

====
